---- MODULE Spec2Model ----
(***************************************************************************)
(* Rook's Gambit: the chess rules engine of js/game-engine.js (class       *)
(* ChessGame) as a state machine.  The engine's fields are the variables,  *)
(* its public operations are the actions, and its private helpers are      *)
(* operators over a record `this` holding the fields they read.  The page  *)
(* (main.js) and the AI player (js/ai-player.js) that drive the engine are *)
(* the actions of SpecUi.                                                  *)
(*                                                                         *)
(* Squares are (row, col) with row 0 black's home rank and row 7 white's.  *)
(* A piece is a record [type, color]; JavaScript's null square is Null.    *)
(***************************************************************************)
EXTENDS Integers, Sequences, FiniteSets, TLC

VARIABLES
    board,            \* this.board: [0..7 -> [0..7 -> piece or Null]]
    currentPlayer,    \* this.currentPlayer
    gameOver,         \* this.gameOver
    moveHistory,      \* this.moveHistory: sequence of move records
    enPassantTarget,  \* this.enPassantTarget: [row, col] or NoSquare
    castlingRights,   \* this.castlingRights[color][side]
    halfMoveClock,    \* this.halfMoveClock
    fullMoveNumber,   \* this.fullMoveNumber
    isChess960,       \* this.isChess960
    initialPositions, \* this.initialPositions[color]: king, rookKingside, rookQueenside
    positionId,       \* this.positionId: 0..959 or NoId
    call,             \* the last public operation called and what it returned
    isThinking,       \* AIPlayer's isThinking
    timers            \* the setTimeout callbacks of main.js and AIPlayer still pending

vars == <<board, currentPlayer, gameOver, moveHistory, enPassantTarget,
          castlingRights, halfMoveClock, fullMoveNumber, isChess960,
          initialPositions, positionId, call, isThinking, timers>>

(***************************************************************************)
(* Bounds of the exploration.                                              *)
(***************************************************************************)
\* moves played off the opening lines (see Lines) in one game
MaxFree == 1
\* calls of makeMove that skip isValidMove are explored up to this many plies
MaxRawPly == 0
\* setTimeout callbacks pending at once in the page
MaxTimers == 2
\* the page is explored along the opening lines of at most this many moves
MaxPageLine == 4
\* the page's board is clicked while fullMoveNumber is below this
MaxMoveNumber == 3

(***************************************************************************)
(* Values.                                                                 *)
(***************************************************************************)
Coords == 0..7
Colors == {"white", "black"}
Sides == {"kingside", "queenside"}
Null == [type |-> "null", color |-> "null"]
NoSquare == [row |-> -1, col |-> -1]
NoId == -1

Piece(t, c) == [type |-> t, color |-> c]
Opponent(color) == IF color = "white" THEN "black" ELSE "white"
Abs(x) == IF x < 0 THEN -x ELSE x
Min2(a, b) == IF a < b THEN a ELSE b
Max2(a, b) == IF a > b THEN a ELSE b
InRange(x) == x >= 0 /\ x < 8

\* the fields of the engine the helpers read
This == [board |-> board, currentPlayer |-> currentPlayer,
         enPassantTarget |-> enPassantTarget, castlingRights |-> castlingRights,
         initialPositions |-> initialPositions, halfMoveClock |-> halfMoveClock,
         fullMoveNumber |-> fullMoveNumber, moveHistory |-> moveHistory]

standardPositions ==
    [c \in Colors |-> [king |-> 4, rookKingside |-> 7, rookQueenside |-> 0]]

allRights == [c \in Colors |-> [kingside |-> TRUE, queenside |-> TRUE]]

standardBackRow ==
    [i \in Coords |-> <<"rook", "knight", "bishop", "queen", "king",
                        "bishop", "knight", "rook">>[i + 1]]

(***************************************************************************)
(* generateChess960Position: the Scharnagl numbering.                      *)
(***************************************************************************)
\* lightSquares counted from the h-file
lightSquaresDescending == <<7, 5, 3, 1>>

lightSquares == <<1, 3, 5, 7>>
\* darkSquares naming the odd files, those of lightSquares
darkSquaresOnOddFiles == <<1, 3, 5, 7>>

darkSquares == <<0, 2, 4, 6>>
\* knightTable with its last pair a second <<2, 4>>
knightTableWithRepeat == << <<0, 1>>, <<0, 2>>, <<0, 3>>, <<0, 4>>,
                            <<1, 2>>, <<1, 3>>, <<1, 4>>,
                            <<2, 3>>, <<2, 4>>,
                            <<2, 4>> >>

knightTable == << <<0, 1>>, <<0, 2>>, <<0, 3>>, <<0, 4>>,
                  <<1, 2>>, <<1, 3>>, <<1, 4>>,
                  <<2, 3>>, <<2, 4>>,
                  <<3, 4>> >>

\* the files of backRow still null, in ascending order (0-based list as a
\* function on 0..n-1)
emptySquares(backRow) ==
    LET S == {i \in Coords : backRow[i] = "null"}
    IN  [k \in 0..(Cardinality(S) - 1) |->
            CHOOSE i \in S : Cardinality({j \in S : j < i}) = k]

\* generateChess960Position filling the last three squares king, rook, rook
generateChess960PositionKingFirst(id) ==
    LET b0 == [i \in Coords |-> "null"]
        b1 == [b0 EXCEPT ![<<1, 3, 5, 7>>[(id % 4) + 1]] = "bishop"]
        b2 == [b1 EXCEPT ![<<0, 2, 4, 6>>[((id \div 4) % 4) + 1]] = "bishop"]
        S2 == {i \in Coords : b2[i] = "null"}
        q == CHOOSE i \in S2 : Cardinality({j \in S2 : j < i}) = (id \div 16) % 6
        b3 == [b2 EXCEPT ![q] = "queen"]
        S3 == {i \in Coords : b3[i] = "null"}
        kn == << <<0, 1>>, <<0, 2>>, <<0, 3>>, <<0, 4>>, <<1, 2>>, <<1, 3>>,
                 <<1, 4>>, <<2, 3>>, <<2, 4>>, <<3, 4>> >>[(id \div 96) + 1]
        n1 == CHOOSE i \in S3 : Cardinality({j \in S3 : j < i}) = kn[1]
        n2 == CHOOSE i \in S3 : Cardinality({j \in S3 : j < i}) = kn[2]
        b4 == [b3 EXCEPT ![n1] = "knight", ![n2] = "knight"]
        S4 == {i \in Coords : b4[i] = "null"}
        e0 == CHOOSE i \in S4 : \A j \in S4 : i <= j
        e2 == CHOOSE i \in S4 : \A j \in S4 : j <= i
        e1 == CHOOSE i \in S4 : i # e0 /\ i # e2
        b5 == [b4 EXCEPT ![e0] = "king", ![e1] = "rook", ![e2] = "rook"]
        pos == [king |-> e0, rookKingside |-> e2, rookQueenside |-> e1]
    IN  [backRow |-> b5, initialPositions |-> [c \in Colors |-> pos]]

generateChess960Position(id) ==
    LET b0== [i \in Coords |-> "null"]
        lightBishopIndex == id % 4
        b1 == [b0 EXCEPT ![lightSquares[lightBishopIndex + 1]] = "bishop"]
        darkBishopIndex == (id \div 4) % 4
        b2 == [b1 EXCEPT ![darkSquares[darkBishopIndex + 1]] = "bishop"]
        queenIndex == (id \div 16) % 6
        b3 == [b2 EXCEPT ![emptySquares(b2)[queenIndex]] = "queen"]
        knightIndex == id \div 96
        knightPositions == knightTable[knightIndex + 1]
        e3 == emptySquares(b3)
        b4 == [b3 EXCEPT ![e3[knightPositions[1]]] = "knight",
                         ![e3[knightPositions[2]]] = "knight"]
        e4 == emptySquares(b4)
        b5 == [b4 EXCEPT ![e4[0]] = "rook", ![e4[1]] = "king", ![e4[2]] = "rook"]
        pos == [king |-> e4[1], rookKingside |-> e4[2], rookQueenside |-> e4[0]]
    IN  [backRow |-> b5, initialPositions |-> [c \in Colors |-> pos]]

\* initializeBoard, given the back row it chose
boardOf(backRow) ==
    [r \in Coords |-> [c \in Coords |->
        CASE r = 0 -> Piece(backRow[c], "black")
          [] r = 1 -> Piece("pawn", "black")
          [] r = 6 -> Piece("pawn", "white")
          [] r = 7 -> Piece(backRow[c], "white")
          [] OTHER -> Null]]

(***************************************************************************)
(* Movement rules.  Each helper reads the fields of `this`.                *)
(***************************************************************************)
\* isPathClear that looks at no square
isPathClearUnchecked(this, fromRow, fromCol, toRow, toCol) == TRUE

isPathClear(this, fromRow, fromCol, toRow, toCol) ==
    LET rowStep == IF toRow = fromRow THEN 0 ELSE IF toRow > fromRow THEN 1 ELSE -1
        colStep == IF toCol = fromCol THEN 0 ELSE IF toCol > fromCol THEN 1 ELSE -1
        n == Max2(Abs(toRow - fromRow), Abs(toCol - fromCol))
    IN  \A k \in 1..(n - 1) :
            this.board[fromRow + k * rowStep][fromCol + k * colStep] = Null

\* isValidPawnMove without the two-row advance of lines 333-335
isValidPawnMoveOneRow(this, piece, fromRow, fromCol, toRow, toCol) ==
    LET direction == IF piece.color = "white" THEN -1 ELSE 1
        rowDiff == toRow - fromRow
        colDiff == Abs(toCol - fromCol)
    IN  \/ colDiff = 0 /\ rowDiff = direction /\ this.board[toRow][toCol] = Null
        \/ /\ colDiff = 1
           /\ rowDiff = direction
           /\ \/ this.board[toRow][toCol] # Null
              \/ /\ this.enPassantTarget # NoSquare
                 /\ this.enPassantTarget.row = toRow
                 /\ this.enPassantTarget.col = toCol

isValidPawnMove(this, piece, fromRow, fromCol, toRow, toCol) ==
    LET direction == IF piece.color = "white" THEN -1 ELSE 1
        startRow == IF piece.color = "white" THEN 6 ELSE 1
        rowDiff == toRow - fromRow
        colDiff == Abs(toCol - fromCol)
    IN  \/ /\ colDiff = 0
           /\ \/ rowDiff = direction /\ this.board[toRow][toCol] = Null
              \/ /\ fromRow = startRow
                 /\ rowDiff = 2 * direction
                 /\ this.board[toRow][toCol] = Null
        \/ /\ colDiff = 1
           /\ rowDiff = direction
           /\ \/ this.board[toRow][toCol] # Null
              \/ /\ this.enPassantTarget # NoSquare
                 /\ this.enPassantTarget.row = toRow
                 /\ this.enPassantTarget.col = toCol

\* findKing: the first king of the colour in row-major order, or NoSquare
findKing(this, color) ==
    LET K == {rc \in Coords \X Coords : this.board[rc[1]][rc[2]] = Piece("king", color)}
    IN  IF K = {} THEN NoSquare
        ELSE LET rc == CHOOSE x \in K : \A y \in K : x[1] * 8 + x[2] <= y[1] * 8 + y[2]
             IN  [row |-> rc[1], col |-> rc[2]]

RECURSIVE isPieceMovementValid(_, _, _, _, _, _)
RECURSIVE isInCheck(_, _)
RECURSIVE canCastleRun(_, _, _)

\* canCastle, as the value it returns and the board it leaves in this.board.
\* `probed` tells that the king-stepping loop ran; `loops` that the loop was
\* entered with the king already on its destination file, where the code's
\* `col === kingDestCol` exit is never met.
canCastleRun(this, color, kingside) ==
    LET row == IF color = "white" THEN 7 ELSE 0
        positions == this.initialPositions[color]
        kingCol == positions.king
        rookCol == IF kingside THEN positions.rookKingside ELSE positions.rookQueenside
        kingDestCol == IF kingside THEN 6 ELSE 2
        rookDestCol == IF kingside THEN 5 ELSE 3
        king == this.board[row][kingCol]
        rook == this.board[row][rookCol]
        minCol == Min2(Min2(kingCol, kingDestCol), Min2(rookCol, rookDestCol))
        maxCol == Max2(Max2(kingCol, kingDestCol), Max2(rookCol, rookDestCol))
        tempBoard == this.board
        step == IF kingDestCol > kingCol THEN 1 ELSE -1
        path == IF step = 1 THEN (kingCol + 1)..kingDestCol ELSE kingDestCol..(kingCol - 1)
        probe(col) == [this EXCEPT !.board =
                          [this.board EXCEPT ![row] =
                              [this.board[row] EXCEPT ![col] = king, ![kingCol] = Null]]]
        no(b) == [ret |-> FALSE, board |-> b, probed |-> FALSE, loops |-> FALSE]
    IN  IF ~this.castlingRights[color][IF kingside THEN "kingside" ELSE "queenside"]
        THEN no(this.board)
        ELSE IF isInCheck(this, color) THEN no(this.board)
        ELSE IF king = Null \/ king.type # "king" \/ king.color # color THEN no(this.board)
        ELSE IF rook = Null \/ rook.type # "rook" \/ rook.color # color THEN no(this.board)
        ELSE IF \E col \in minCol..maxCol :
                    col # kingCol /\ col # rookCol /\ this.board[row][col] # Null
        THEN no(this.board)
        ELSE IF kingCol = kingDestCol
        THEN [ret |-> FALSE, board |-> tempBoard, probed |-> TRUE, loops |-> TRUE]
        ELSE [ret |-> \A col \in path : ~isInCheck(probe(col), color),
              board |-> tempBoard, probed |-> TRUE, loops |-> FALSE]

canCastle(this, color, kingside) == canCastleRun(this, color, kingside).ret

isPieceMovementValid(this, piece, fromRow, fromCol, toRow, toCol) ==
    LET rowDiff == toRow - fromRow
        colDiff == toCol - fromCol
        absRowDiff == Abs(rowDiff)
        absColDiff == Abs(colDiff)
    IN  CASE piece.type = "pawn" ->
                isValidPawnMove(this, piece, fromRow, fromCol, toRow, toCol)
          [] piece.type = "rook" ->
                (rowDiff = 0 \/ colDiff = 0)
                    /\ isPathClear(this, fromRow, fromCol, toRow, toCol)
          [] piece.type = "bishop" ->
                absRowDiff = absColDiff
                    /\ isPathClear(this, fromRow, fromCol, toRow, toCol)
          [] piece.type = "queen" ->
                ((rowDiff = 0 \/ colDiff = 0) \/ absRowDiff = absColDiff)
                    /\ isPathClear(this, fromRow, fromCol, toRow, toCol)
          [] piece.type = "knight" ->
                (absRowDiff = 2 /\ absColDiff = 1) \/ (absRowDiff = 1 /\ absColDiff = 2)
          [] piece.type = "king" ->
                IF absRowDiff <= 1 /\ absColDiff <= 1 THEN TRUE
                ELSE IF absRowDiff = 0 /\ fromCol = this.initialPositions[piece.color].king
                     THEN IF toCol = 6 THEN canCastle(this, piece.color, TRUE)
                          ELSE IF toCol = 2 THEN canCastle(this, piece.color, FALSE)
                          ELSE FALSE
                     ELSE FALSE
          [] OTHER -> FALSE

isInCheck(this, color) ==
    LET kingPosition == findKing(this, color)
        opponentColor == Opponent(color)
    IN  IF kingPosition = NoSquare THEN FALSE
        ELSE \E row \in Coords, col \in Coords :
                /\ this.board[row][col] # Null
                /\ this.board[row][col].color = opponentColor
                /\ isPieceMovementValid(this, this.board[row][col], row, col,
                                        kingPosition.row, kingPosition.col)


(***************************************************************************)
(* isValidMove.  The code tries the move on this.board itself and puts a   *)
(* snapshot back afterwards, so the operation is modelled by the value it  *)
(* returns together with the board and castling rights it leaves behind.   *)
(***************************************************************************)
\* lines 229-243 without the return of line 231: a king move along its row from
\* the king's recorded file to file 6 or 2 is handed to canCastle
isCastlingAttemptAnyStep(this, piece, fromRow, fromCol, toRow, toCol) ==
    /\ piece.type = "king"
    /\ toRow = fromRow
    /\ fromCol = this.initialPositions[piece.color].king
    /\ toCol \in {6, 2}

\* lines 229-243: a king move that is no single step and is handed to canCastle
isCastlingAttempt(this, piece, fromRow, fromCol, toRow, toCol) ==
    /\ piece.type = "king"
    /\ ~(Abs(toRow - fromRow) <= 1 /\ Abs(toCol - fromCol) <= 1)
    /\ toRow = fromRow
    /\ fromCol = this.initialPositions[piece.color].king
    /\ toCol \in {6, 2}

\* lines 184-200: the trial move written into this.board
trialBoard(this, piece, fromRow, fromCol, toRow, toCol) ==
    LET b1 == [this.board EXCEPT ![toRow][toCol] = piece]
        b2 == [b1 EXCEPT ![fromRow][fromCol] = Null]
        positions == this.initialPositions[piece.color]
        isKingsideCastle == toCol = 6 /\ fromCol = positions.king
        isQueensideCastle == toCol = 2 /\ fromCol = positions.king
        rookFromCol == IF isKingsideCastle THEN positions.rookKingside
                       ELSE positions.rookQueenside
        rookToCol == IF isKingsideCastle THEN 5 ELSE 3
        rook == b2[fromRow][rookFromCol]
    IN  IF piece.type = "king" /\ (isKingsideCastle \/ isQueensideCastle)
        THEN [b2 EXCEPT ![fromRow] =
                [b2[fromRow] EXCEPT ![rookToCol] = rook, ![rookFromCol] = Null]]
        ELSE b2

\* isValidMove without line 204: the trial board stays in this.board
restoreBoardForgotten(tempBoard, tempCastlingRights, trial) ==
    [board |-> trial, castlingRights |-> tempCastlingRights]

\* isValidMove putting back the castling rights of a new game instead of the
\* snapshot taken at line 182
restoreRightsOfNewGame(tempBoard, tempCastlingRights, trial) ==
    [board |-> tempBoard, castlingRights |-> allRights]

\* lines 204-206: what isValidMove leaves in this.board and this.castlingRights
restoreAfterTrial(tempBoard, tempCastlingRights, trial) ==
    [board |-> tempBoard, castlingRights |-> tempCastlingRights]

isValidMoveRun(this, fromRow, fromCol, toRow, toCol) ==
    LET early(fault) ==
            [ret |-> FALSE, fault |-> fault, board |-> this.board,
             castlingRights |-> this.castlingRights, probed |-> FALSE]
    IN  IF ~InRange(fromRow) THEN early(TRUE)    \* this.board[fromRow] is undefined
        ELSE IF ~InRange(fromCol) THEN early(FALSE)    \* piece is undefined
        ELSE
        LET piece == this.board[fromRow][fromCol]
        IN  IF piece = Null \/ piece.color # this.currentPlayer THEN early(FALSE)
            ELSE IF toRow < 0 \/ toRow >= 8 \/ toCol < 0 \/ toCol >= 8 THEN early(FALSE)
            ELSE IF /\ this.board[toRow][toCol] # Null
                    /\ this.board[toRow][toCol].color = piece.color THEN early(FALSE)
            ELSE
            LET castling == isCastlingAttempt(this, piece, fromRow, fromCol, toRow, toCol)
                cc == canCastleRun(this, piece.color, toCol = 6)
                pattern == IF castling THEN cc.ret
                           ELSE isPieceMovementValid(this, piece, fromRow, fromCol,
                                                     toRow, toCol)
                after == IF castling THEN [this EXCEPT !.board = cc.board] ELSE this
                probed == castling /\ cc.probed
            IN  IF ~pattern
                THEN [ret |-> FALSE, fault |-> FALSE, board |-> after.board,
                      castlingRights |-> after.castlingRights, probed |-> probed]
                ELSE
                LET tempBoard == after.board
                    tempCastlingRights == after.castlingRights
                    trial == trialBoard(after, piece, fromRow, fromCol, toRow, toCol)
                    wouldBeInCheck == isInCheck([after EXCEPT !.board = trial],
                                                piece.color)
                    left == restoreAfterTrial(tempBoard, tempCastlingRights, trial)
                IN  [ret |-> ~wouldBeInCheck, fault |-> FALSE, board |-> left.board,
                     castlingRights |-> left.castlingRights, probed |-> probed]

\* isValidMove without the colour test of line 168: the piece on the source
\* square is taken to be of the side to move
isValidMoveOfEitherSide(this, fromRow, fromCol, toRow, toCol) ==
    /\ InRange(fromRow) /\ InRange(fromCol)
    /\ this.board[fromRow][fromCol] # Null
    /\ isValidMoveRun([this EXCEPT !.currentPlayer = this.board[fromRow][fromCol].color],
                      fromRow, fromCol, toRow, toCol).ret

isValidMove(this, fromRow, fromCol, toRow, toCol) ==
    isValidMoveRun(this, fromRow, fromCol, toRow, toCol).ret

\* getAllValidMoves(color), as the set of the moves in the list it returns
getAllValidMoves(this, color) ==
    {m \in (Coords \X Coords) \X (Coords \X Coords) :
        /\ this.board[m[1][1]][m[1][2]] # Null
        /\ this.board[m[1][1]][m[1][2]].color = color
        /\ isValidMove(this, m[1][1], m[1][2], m[2][1], m[2][2])}

\* getAllValidMoves(color).length === 0
noValidMoves(this, color) ==
    ~\E fromRow \in Coords, fromCol \in Coords :
        /\ this.board[fromRow][fromCol] # Null
        /\ this.board[fromRow][fromCol].color = color
        /\ \E toRow \in Coords, toCol \in Coords :
              isValidMove(this, fromRow, fromCol, toRow, toCol)

\* isCheckmate with the test of line 525 inverted
isCheckmateWithoutCheck(this, color) ==
    ~isInCheck(this, color) /\ noValidMoves(this, color)

isCheckmate(this, color) == isInCheck(this, color) /\ noValidMoves(this, color)

\* isStalemate without the test of line 530
isStalemateWithoutCheckTest(this, color) == noValidMoves(this, color)

isStalemate(this, color) == ~isInCheck(this, color) /\ noValidMoves(this, color)

\* The board isInCheck(color) leaves in this.board.  Its loop asks
\* isPieceMovementValid of the opponent's pieces in row-major order and
\* returns at the first that reaches the king; only the opponent's king can
\* get as far as canCastle, which writes this.board.
isInCheckLeaves(this, color) ==
    LET kingPosition == findKing(this, color)
        opponentColor == Opponent(color)
        other == findKing(this, opponentColor)
        earlier == {rc \in Coords \X Coords :
                       /\ rc[1] * 8 + rc[2] < other.row * 8 + other.col
                       /\ this.board[rc[1]][rc[2]] # Null
                       /\ this.board[rc[1]][rc[2]].color = opponentColor}
    IN  IF kingPosition = NoSquare \/ other = NoSquare THEN this.board
        ELSE IF \E rc \in earlier :
                    isPieceMovementValid(this, this.board[rc[1]][rc[2]], rc[1], rc[2],
                                         kingPosition.row, kingPosition.col)
        THEN this.board
        ELSE IF isCastlingAttempt(this, Piece("king", opponentColor), other.row,
                                  other.col, kingPosition.row, kingPosition.col)
        THEN canCastleRun(this, opponentColor, kingPosition.col = 6).board
        ELSE this.board

\* getAllValidMoves(color) is four nested loops, and every isValidMove call in
\* them starts from what the call before it left in this.board and
\* this.castlingRights.  Each Loop operator below is one of the loops from its
\* counter's value on; its value is the engine after the loop.  The Next
\* operators take the engine a round leaves behind into the next round.
RECURSIVE toColLoop(_, _, _, _, _)
toColNext(this, v, fromRow, fromCol, toRow, toCol) ==
    IF v.board = this.board /\ v.castlingRights = this.castlingRights
    THEN toColLoop(this, fromRow, fromCol, toRow, toCol + 1)
    ELSE toColLoop([this EXCEPT !.board = v.board, !.castlingRights = v.castlingRights],
                   fromRow, fromCol, toRow, toCol + 1)

toColLoop(this, fromRow, fromCol, toRow, toCol) ==
    IF toCol = 8 THEN this
    ELSE toColNext(this, isValidMoveRun(this, fromRow, fromCol, toRow, toCol),
                   fromRow, fromCol, toRow, toCol)

RECURSIVE toRowLoop(_, _, _, _)
toRowNext(this, t, fromRow, fromCol, toRow) ==
    IF t = this THEN toRowLoop(this, fromRow, fromCol, toRow + 1)
    ELSE toRowLoop(t, fromRow, fromCol, toRow + 1)

toRowLoop(this, fromRow, fromCol, toRow) ==
    IF toRow = 8 THEN this
    ELSE toRowNext(this, toColLoop(this, fromRow, fromCol, toRow, 0),
                   fromRow, fromCol, toRow)

RECURSIVE fromColLoop(_, _, _, _)
fromColLoop(this, color, fromRow, fromCol) ==
    IF fromCol = 8 THEN this
    ELSE IF /\ this.board[fromRow][fromCol] # Null
            /\ this.board[fromRow][fromCol].color = color
    THEN fromColLoop(toRowLoop(this, fromRow, fromCol, 0), color, fromRow, fromCol + 1)
    ELSE fromColLoop(this, color, fromRow, fromCol + 1)

RECURSIVE fromRowLoop(_, _, _)
fromRowLoop(this, color, fromRow) ==
    IF fromRow = 8 THEN this
    ELSE fromRowLoop(fromColLoop(this, color, fromRow, 0), color, fromRow + 1)

\* getAllValidMoves(color): the engine after the call
getAllValidMovesLeaves(this, color) == fromRowLoop(this, color, 0)

\* isInCheck, isCheckmate, isStalemate or getAllValidMoves called for a colour:
\* the engine after the call
queryRun(this, op, color) ==
    LET checked == [this EXCEPT !.board = isInCheckLeaves(this, color)]
        inCheck == isInCheck(this, color)
    IN  CASE op = "isInCheck" -> checked
          [] op = "getAllValidMoves" -> getAllValidMovesLeaves(this, color)
          [] op = "isCheckmate" ->
                IF ~inCheck THEN checked ELSE getAllValidMovesLeaves(checked, color)
          [] op = "isStalemate" ->
                IF inCheck THEN checked ELSE getAllValidMovesLeaves(checked, color)


(***************************************************************************)
(* makeMove.  It applies the move it is given; it does not call            *)
(* isValidMove.                                                            *)
(***************************************************************************)
\* lines 370-371: the move is taken for an en passant capture
isEnPassantCapture(this, piece, toRow, toCol) ==
    /\ piece.type = "pawn"
    /\ this.enPassantTarget # NoSquare
    /\ toRow = this.enPassantTarget.row
    /\ toCol = this.enPassantTarget.col

\* lines 376-381: the side makeMove castles to, or "none"
castlingSide(this, piece, fromCol, toCol) ==
    LET positions == this.initialPositions[piece.color]
    IN  IF piece.type # "king" THEN "none"
        ELSE IF /\ toCol = 6 /\ fromCol = positions.king
                /\ this.castlingRights[piece.color].kingside THEN "kingside"
        ELSE IF /\ toCol = 2 /\ fromCol = positions.king
                /\ this.castlingRights[piece.color].queenside THEN "queenside"
        ELSE "none"

\* lines 382-389: the castling rook is lifted and put on its destination file
moveCastlingRook(b, positions, side, fromRow) ==
    LET rookFromCol == IF side = "kingside" THEN positions.rookKingside
                       ELSE positions.rookQueenside
        rookToCol == IF side = "kingside" THEN 5 ELSE 3
        rook == b[fromRow][rookFromCol]
    IN  [b EXCEPT ![fromRow] = [b[fromRow] EXCEPT ![rookFromCol] = Null,
                                                  ![rookToCol] = rook]]

\* lines 369-395: the board after the capture, the rook relocation and the move
boardAfterMove(this, piece, fromRow, fromCol, toRow, toCol) ==
    LET b1 == IF isEnPassantCapture(this, piece, toRow, toCol)
              THEN [this.board EXCEPT ![fromRow][toCol] = Null]
              ELSE this.board
        side == castlingSide(this, piece, fromCol, toCol)
        b2 == IF side # "none"
              THEN moveCastlingRook(b1, this.initialPositions[piece.color], side, fromRow)
              ELSE b1
        b3 == [b2 EXCEPT ![toRow][toCol] = piece]
    IN  [b3 EXCEPT ![fromRow][fromCol] = Null]

\* updateCastlingRights without lines 455-459: a king move keeps the rights
updateCastlingRightsRookOnly(this, piece, fromRow, fromCol, toRow, toCol) ==
    LET r0 == this.castlingRights
        positions == this.initialPositions[piece.color]
        homeRow == IF piece.color = "white" THEN 7 ELSE 0
    IN  IF piece.type = "rook" /\ fromRow = homeRow
        THEN LET q == IF fromCol = positions.rookQueenside
                      THEN [r0 EXCEPT ![piece.color].queenside = FALSE] ELSE r0
             IN  IF fromCol = positions.rookKingside
                 THEN [q EXCEPT ![piece.color].kingside = FALSE] ELSE q
        ELSE r0

\* updateCastlingRights, called with the piece already on its destination, so
\* that its `capturedPiece` (line 476) is the piece found there after the move
updateCastlingRights(this, piece, fromRow, fromCol, toRow, toCol) ==
    LET r0 == this.castlingRights
        r1 == IF piece.type = "king"
              THEN [r0 EXCEPT ![piece.color] = [kingside |-> FALSE, queenside |-> FALSE]]
              ELSE r0
        positions == this.initialPositions[piece.color]
        homeRow == IF piece.color = "white" THEN 7 ELSE 0
        r2 == IF piece.type = "rook" /\ fromRow = homeRow
              THEN LET q == IF fromCol = positions.rookQueenside
                            THEN [r1 EXCEPT ![piece.color].queenside = FALSE] ELSE r1
                   IN  IF fromCol = positions.rookKingside
                       THEN [q EXCEPT ![piece.color].kingside = FALSE] ELSE q
              ELSE r1
        capturedPiece == this.board[toRow][toCol]
    IN  IF capturedPiece # Null /\ capturedPiece.type = "rook"
        THEN LET cpos == this.initialPositions[capturedPiece.color]
                 cHome == IF capturedPiece.color = "white" THEN 7 ELSE 0
             IN  IF toRow = cHome
                 THEN LET q == IF toCol = cpos.rookQueenside
                               THEN [r2 EXCEPT ![capturedPiece.color].queenside = FALSE]
                               ELSE r2
                      IN  IF toCol = cpos.rookKingside
                          THEN [q EXCEPT ![capturedPiece.color].kingside = FALSE]
                          ELSE q
                 ELSE r2
        ELSE r2

\* makeMove without lines 400-403: the pawn stays a pawn
promoteNothing(b, piece, toRow, toCol) == b

\* lines 400-403
promote(b, piece, toRow, toCol) ==
    IF piece.type = "pawn" /\ (toRow = 0 \/ toRow = 7)
    THEN [b EXCEPT ![toRow][toCol] = Piece("queen", piece.color)]
    ELSE b

\* lines 405-409 with the target put on the pawn's own square
nextEnPassantTargetOnPawn(piece, fromRow, toRow, toCol) ==
    IF piece.type = "pawn" /\ Abs(toRow - fromRow) = 2
    THEN [row |-> toRow, col |-> toCol]
    ELSE NoSquare

\* lines 405-409
nextEnPassantTarget(piece, fromRow, toRow, toCol) ==
    IF piece.type = "pawn" /\ Abs(toRow - fromRow) = 2
    THEN [row |-> fromRow + (toRow - fromRow) \div 2, col |-> toCol]
    ELSE NoSquare

\* coordinateToAlgebraic: file letter and rank digit
files == <<"a", "b", "c", "d", "e", "f", "g", "h">>
ranks == <<"8", "7", "6", "5", "4", "3", "2", "1">>
coordinateToAlgebraic(row, col) == <<files[col + 1], ranks[row + 1]>>

\* getDescriptiveNotation: the sentence as the parts it is put together from.
\* `this` is the engine after lines 393-420, so this.enPassantTarget is the
\* target the move itself has just set.
getDescriptiveNotation(this, piece, fromRow, fromCol, toRow, toCol, capturedPiece) ==
    LET positions == this.initialPositions[piece.color]
        castles == IF piece.type = "king" /\ fromCol = positions.king /\ toCol = 6
                   THEN "kingside"
                   ELSE IF piece.type = "king" /\ fromCol = positions.king /\ toCol = 2
                   THEN "queenside" ELSE "none"
    IN  IF castles # "none"
        THEN [color |-> piece.color, piece |-> "none", toSquare |-> <<"", "">>,
              takes |-> Null, enPassant |-> FALSE, promotes |-> FALSE,
              castles |-> castles]
        ELSE [color |-> piece.color, piece |-> piece.type,
              toSquare |-> coordinateToAlgebraic(toRow, toCol),
              takes |-> capturedPiece,
              enPassant |-> /\ piece.type = "pawn"
                            /\ this.enPassantTarget # NoSquare
                            /\ toRow = this.enPassantTarget.row
                            /\ toCol = this.enPassantTarget.col,
              promotes |-> piece.type = "pawn" /\ (toRow = 0 \/ toRow = 7),
              castles |-> "none"]

\* addMoveConditions: the suffix appended to the notation
addMoveConditions(this, piece) ==
    LET opponentColor == Opponent(piece.color)
    IN  IF isCheckmate(this, opponentColor) THEN "Checkmate!"
        ELSE IF isStalemate(this, opponentColor) THEN "Stalemate!"
        ELSE IF isInCheck(this, opponentColor) THEN "Check!"
        ELSE ""

\* makeMove: fault tells that the call threw before it wrote anything
\* (a row outside the board, or no piece on the source square); otherwise
\* `this` is the engine after the call.
makeMoveRun(this, fromRow, fromCol, toRow, toCol) ==
    IF \/ ~InRange(fromRow) \/ ~InRange(toRow) \/ ~InRange(fromCol)
       \/ this.board[fromRow][fromCol] = Null
    THEN [fault |-> TRUE, this |-> this, castled |-> "none"]
    ELSE
    LET piece == this.board[fromRow][fromCol]
        capturedPiece == this.board[toRow][toCol]
        moved == boardAfterMove(this, piece, fromRow, fromCol, toRow, toCol)
        rights == updateCastlingRights([this EXCEPT !.board = moved], piece,
                                       fromRow, fromCol, toRow, toCol)
        t1 == [this EXCEPT
                 !.board = promote(moved, piece, toRow, toCol),
                 !.castlingRights = rights,
                 !.enPassantTarget = nextEnPassantTarget(piece, fromRow, toRow, toCol),
                 !.halfMoveClock = IF piece.type = "pawn" \/ capturedPiece # Null
                                   THEN 0 ELSE this.halfMoveClock + 1,
                 !.fullMoveNumber = IF this.currentPlayer = "black"
                                    THEN this.fullMoveNumber + 1
                                    ELSE this.fullMoveNumber]
        moveNotation == getDescriptiveNotation(t1, piece, fromRow, fromCol,
                                               toRow, toCol, capturedPiece)
        t2 == [t1 EXCEPT !.currentPlayer = Opponent(this.currentPlayer)]
        record == [from |-> [row |-> fromRow, col |-> fromCol],
                   to |-> [row |-> toRow, col |-> toCol],
                   piece |-> piece,
                   captured |-> capturedPiece,
                   notation |-> moveNotation,
                   condition |-> addMoveConditions(t2, piece),
                   moveNumber |-> t1.fullMoveNumber,
                   player |-> piece.color]
    IN  [fault |-> FALSE,
         this |-> [t2 EXCEPT !.moveHistory = Append(this.moveHistory, record)],
         castled |-> castlingSide(this, piece, fromCol, toCol)]


(***************************************************************************)
(* The games explored.  A game follows one of the opening lines below,     *)
(* each a sequence of moves <<fromRow, fromCol, toRow, toCol>> from the    *)
(* standard layout (id NoId) or from a variant layout, and may leave it    *)
(* for at most MaxFree moves of any kind.                                  *)
(***************************************************************************)
Lines == {
    \* 1.d4 h5 2.d5 Rh6 3.Kd2 Rg6 4.Kc3 Rg5 5.Kb4 h4 6.Kb5 e5 7.dxe6 e.p.
    [id |-> NoId, moves |-> << <<6, 3, 4, 3>>, <<1, 7, 3, 7>>, <<4, 3, 3, 3>>,
        <<0, 7, 2, 7>>, <<7, 4, 6, 3>>, <<2, 7, 2, 6>>, <<6, 3, 5, 2>>,
        <<2, 6, 3, 6>>, <<5, 2, 4, 1>>, <<3, 7, 4, 7>>, <<4, 1, 3, 1>>,
        <<1, 4, 3, 4>>, <<3, 3, 2, 4>> >>],
    \* 1.e4 e5 2.Nf3 Nf6 3.Bc4 Bc5 4.O-O O-O
    [id |-> NoId, moves |-> << <<6, 4, 4, 4>>, <<1, 4, 3, 4>>, <<7, 6, 5, 5>>,
        <<0, 6, 2, 5>>, <<7, 5, 4, 2>>, <<0, 5, 3, 2>>, <<7, 4, 7, 6>>,
        <<0, 4, 0, 6>> >>],
    \* 1.d4 d5 2.Nc3 Nc6 3.Bf4 Bf5 4.Qd2 Qd7 5.O-O-O O-O-O
    [id |-> NoId, moves |-> << <<6, 3, 4, 3>>, <<1, 3, 3, 3>>, <<7, 1, 5, 2>>,
        <<0, 1, 2, 2>>, <<7, 2, 4, 5>>, <<0, 2, 3, 5>>, <<7, 3, 6, 3>>,
        <<0, 3, 1, 3>>, <<7, 4, 7, 2>>, <<0, 4, 0, 2>> >>],
    \* 1.b3 g6 2.Bb2 a6 3.Bxh8 Nf6 4.Bxf6
    [id |-> NoId, moves |-> << <<6, 1, 5, 1>>, <<1, 6, 2, 6>>, <<7, 2, 6, 1>>,
        <<1, 0, 2, 0>>, <<6, 1, 0, 7>>, <<0, 6, 2, 5>>, <<0, 7, 2, 5>> >>],
    \* 1.b3 g6 2.Bb2 Bh6 3.Bxh8 Nf6 4.a3
    [id |-> NoId, moves |-> << <<6, 1, 5, 1>>, <<1, 6, 2, 6>>, <<7, 2, 6, 1>>,
        <<0, 5, 2, 7>>, <<6, 1, 0, 7>>, <<0, 6, 2, 5>>, <<6, 0, 5, 0>> >>],
    \* 1.Nf3 e5 2.a3 e4 3.f4 exf3
    [id |-> NoId, moves |-> << <<7, 6, 5, 5>>, <<1, 4, 3, 4>>, <<6, 0, 5, 0>>,
        <<3, 4, 4, 4>>, <<6, 5, 4, 5>>, <<4, 4, 5, 5>> >>],
    \* 1.h4 g5 2.hxg5 h6 3.gxh6 a6 4.h7 a5 5.hxg8=Q
    [id |-> NoId, moves |-> << <<6, 7, 4, 7>>, <<1, 6, 3, 6>>, <<4, 7, 3, 6>>,
        <<1, 7, 2, 7>>, <<3, 6, 2, 7>>, <<1, 0, 2, 0>>, <<2, 7, 1, 7>>,
        <<2, 0, 3, 0>>, <<1, 7, 0, 6>> >>],
    \* 1.e4 g6 2.Ke2 c6 3.Ke3 Bh6 4.Kd4 e6 5.Ke5 a6 6.Kd6 Qe7 7.Kc7 b6 8.Kxc8
    [id |-> NoId, moves |-> << <<6, 4, 4, 4>>, <<1, 6, 2, 6>>, <<7, 4, 6, 4>>,
        <<1, 2, 2, 2>>, <<6, 4, 5, 4>>, <<0, 5, 2, 7>>, <<5, 4, 4, 3>>,
        <<1, 4, 2, 4>>, <<4, 3, 3, 4>>, <<1, 0, 2, 0>>, <<3, 4, 2, 3>>,
        <<0, 3, 1, 4>>, <<2, 3, 1, 2>>, <<1, 1, 2, 1>>, <<1, 2, 0, 2>> >>],
    \* fool's mate: 1.f3 e5 2.g4 Qh4
    [id |-> NoId, moves |-> << <<6, 5, 5, 5>>, <<1, 4, 3, 4>>, <<6, 6, 4, 6>>,
        <<0, 3, 4, 7>> >>],
    \* fool's mate: 1.g4 e6 2.f4 Qh4
    [id |-> NoId, moves |-> << <<6, 6, 4, 6>>, <<1, 4, 2, 4>>, <<6, 5, 4, 5>>,
        <<0, 3, 4, 7>> >>],
    \* layout 192 (BBQNRKNR): 1.Nh3 Nh6 2.Kg1 Kg8
    [id |-> 192, moves |-> << <<7, 6, 5, 7>>, <<0, 6, 2, 7>>, <<7, 5, 7, 6>>,
        <<0, 5, 0, 6>> >>],
    \* layout 192: 1.Nh3 b6 2.e3 Qa6+ 3.Kg1
    [id |-> 192, moves |-> << <<7, 6, 5, 7>>, <<1, 1, 2, 1>>, <<6, 4, 5, 4>>,
        <<0, 2, 2, 0>>, <<7, 5, 7, 6>> >>],
    \* layout 192: 1.g3 b6 2.Nh3 Bxh1 3.Kg1
    [id |-> 192, moves |-> << <<6, 6, 5, 6>>, <<1, 1, 2, 1>>, <<7, 6, 5, 7>>,
        <<0, 0, 7, 7>>, <<7, 5, 7, 6>> >>],
    \* layout 96 (BBQNRNKR, king on file 6): 1.Ng3 a6
    [id |-> 96, moves |-> << <<7, 5, 5, 6>>, <<1, 0, 2, 0>> >>],
    \* layout 3 (BQNNRKRB): 1.e4 e5
    [id |-> 3, moves |-> << <<6, 4, 4, 4>>, <<1, 4, 3, 4>> >>],
    \* layout 230 (NRBQKBNR): 1.e4 e5 2.Nf3 Nf6 3.Bc4 Bc5 4.O-O O-O
    [id |-> 230, moves |-> << <<6, 4, 4, 4>>, <<1, 4, 3, 4>>, <<7, 6, 5, 5>>,
        <<0, 6, 2, 5>>, <<7, 5, 4, 2>>, <<0, 5, 3, 2>>, <<7, 4, 7, 6>>,
        <<0, 4, 0, 6>> >>],
    \* layout 230: 1.d4 d5 2.Bf4 Bf5 3.Qd2 Qd7 4.O-O-O O-O-O
    [id |-> 230, moves |-> << <<6, 3, 4, 3>>, <<1, 3, 3, 3>>, <<7, 2, 4, 5>>,
        <<0, 2, 3, 5>>, <<7, 3, 6, 3>>, <<0, 3, 1, 3>>, <<7, 4, 7, 2>>,
        <<0, 4, 0, 2>> >>] }

\* the ids Math.random may be seen to draw in generateChess960Position
SampleIds == {l.id : l \in Lines} \ {NoId}

\* the moves applied so far
Played == [i \in 1..Len(moveHistory) |->
             <<moveHistory[i].from.row, moveHistory[i].from.col,
               moveHistory[i].to.row, moveHistory[i].to.col>>]

\* generateChess960Position for each id drawn
Generated == [id \in SampleIds |-> generateChess960Position(id)]

\* the opening lines the game has followed so far
LinesFollowed ==
    {l \in Lines : /\ l.id = positionId
                   /\ isChess960 = (l.id # NoId)
                   /\ Len(l.moves) >= Len(moveHistory)
                   /\ SubSeq(l.moves, 1, Len(moveHistory)) = Played}

\* the moves that keep the game on an opening line
OnLineMoves ==
    {l.moves[Len(moveHistory) + 1] :
        l \in {k \in LinesFollowed : Len(k.moves) > Len(moveHistory)}}

\* how many of the moves applied so far follow an opening line
LineDepth ==
    LET D == {k \in 1..Len(moveHistory) :
                \E l \in Lines : /\ l.id = positionId
                                 /\ isChess960 = (l.id # NoId)
                                 /\ Len(l.moves) >= k
                                 /\ SubSeq(l.moves, 1, k) = SubSeq(Played, 1, k)}
             \cup {0}
    IN  CHOOSE k \in D : \A j \in D : j <= k

FreeUsed == Len(moveHistory) - LineDepth

AllMoves == {<<fromRow, fromCol, toRow, toCol>> :
                fromRow \in Coords, fromCol \in Coords, toRow \in Coords, toCol \in Coords}

\* moves of any kind are still tried in this state
Explored == FreeUsed < MaxFree

\* the moves a caller may try in this state
MovesTried == IF Explored THEN AllMoves ELSE OnLineMoves

(***************************************************************************)
(* The state machine.                                                      *)
(***************************************************************************)
NoCall == [op |-> "new", ret |-> "", probed |-> FALSE, castled |-> "none"]

Init ==
    /\ board = boardOf(standardBackRow)
    /\ currentPlayer = "white"
    /\ gameOver = FALSE
    /\ moveHistory = << >>
    /\ enPassantTarget = NoSquare
    /\ castlingRights = allRights
    /\ halfMoveClock = 0
    /\ fullMoveNumber = 1
    /\ isChess960 = FALSE
    /\ initialPositions = standardPositions
    /\ positionId = NoId
    /\ call = NoCall
    /\ isThinking = FALSE
    /\ timers = << >>

\* the engine's fields become those of the record t
Becomes(t) ==
    /\ board' = t.board
    /\ currentPlayer' = t.currentPlayer
    /\ moveHistory' = t.moveHistory
    /\ enPassantTarget' = t.enPassantTarget
    /\ castlingRights' = t.castlingRights
    /\ halfMoveClock' = t.halfMoveClock
    /\ fullMoveNumber' = t.fullMoveNumber

\* A caller (the board click handler, the AI) asks isValidMove and, on yes,
\* calls makeMove with the same squares.
PlayMove ==
    /\ \E mv \in MovesTried :
        LET fromRow == mv[1]
            fromCol == mv[2]
            toRow == mv[3]
            toCol == mv[4]
        IN  /\ board[fromRow][fromCol] # Null
            /\ board[fromRow][fromCol].color = currentPlayer
            /\ \E v \in {isValidMoveRun(This, fromRow, fromCol, toRow, toCol)} :
                /\ v.ret
                /\ \E m \in {makeMoveRun([This EXCEPT !.board = v.board,
                                                  !.castlingRights = v.castlingRights],
                                            fromRow, fromCol, toRow, toCol)} :
                    /\ Becomes(m.this)
                    /\ call' = [op |-> "makeMove", ret |-> "moved",
                                probed |-> v.probed, castled |-> m.castled]
    /\ UNCHANGED <<gameOver, isChess960, initialPositions, positionId,
                   isThinking, timers>>

\* reset() that leaves castlingRights as the game before left it
ResetKeepingRights ==
    /\ board' = boardOf(standardBackRow)
    /\ currentPlayer' = "white"
    /\ moveHistory' = << >>
    /\ enPassantTarget' = NoSquare
    /\ halfMoveClock' = 0
    /\ fullMoveNumber' = 1
    /\ initialPositions' = standardPositions
    /\ call' = [NoCall EXCEPT !.op = "reset"]
    /\ UNCHANGED <<gameOver, castlingRights, isChess960, positionId, isThinking, timers>>

\* reset(): a new game in the mode the engine is in.  In variant mode the id
\* is forgotten first and generateChess960Position draws a new one.
Reset ==
    \E id \in SampleIds :
        LET g == Generated[id]
        IN  /\ board' = boardOf(IF isChess960 THEN g.backRow ELSE standardBackRow)
            /\ initialPositions' = IF isChess960 THEN g.initialPositions
                                   ELSE standardPositions
            /\ positionId' = IF isChess960 THEN id ELSE positionId
            /\ currentPlayer' = "white"
            /\ gameOver' = FALSE
            /\ moveHistory' = << >>
            /\ enPassantTarget' = NoSquare
            /\ castlingRights' = allRights
            /\ halfMoveClock' = 0
            /\ fullMoveNumber' = 1
            /\ call' = [NoCall EXCEPT !.op = "reset"]
            /\ UNCHANGED <<isChess960, isThinking, timers>>

\* setChess960Mode(enabled), as the mode buttons and New Game call it: the
\* positionId parameter takes its default, null.  The mode is switched in the
\* positions from which moves of any kind are explored.
SetChess960Mode ==
    \E enabled \in BOOLEAN :
        /\ Explored
        /\ isChess960' = enabled
        /\ positionId' = NoId
        /\ initialPositions' = IF enabled THEN initialPositions ELSE standardPositions
        /\ call' = [NoCall EXCEPT !.op = "setChess960Mode"]
        /\ UNCHANGED <<board, currentPlayer, gameOver, moveHistory, enPassantTarget,
                       castlingRights, halfMoveClock, fullMoveNumber,
                       isThinking, timers>>

\* argument lists with a coordinate outside the board; the coordinates inside
\* are those of the corner squares
OutsideMoves ==
    {mv \in {-1, 0, 7, 8} \X {-1, 0, 7, 8} \X {-1, 0, 7, 8} \X {-1, 0, 7, 8} :
        \E i \in 1..4 : ~InRange(mv[i])}

\* the operations that only ask
Asking == {"isValidMove", "isInCheck", "isCheckmate", "isStalemate", "getAllValidMoves"}

\* The asking operations are called in the positions from which moves are
\* explored, once between two other operations.
MayAsk == call.op \notin Asking /\ Explored

\* The argument lists isValidMove is called with.  A call whose source square
\* holds no piece of the side to move returns at line 168 before it reads the
\* destination, so one destination stands for all.
AskedMoves ==
    {mv \in AllMoves : \/ /\ board[mv[1]][mv[2]] # Null
                          /\ board[mv[1]][mv[2]].color = currentPlayer
                       \/ mv[3] = 0 /\ mv[4] = 0}
    \cup OutsideMoves

\* isValidMove(fromRow, fromCol, toRow, toCol) called on its own
IsValidMoveCall ==
    /\ MayAsk
    /\ \E v \in {isValidMoveRun(This, mv[1], mv[2], mv[3], mv[4]) : mv \in AskedMoves} :
        /\ board' = v.board
        /\ castlingRights' = v.castlingRights
        /\ call' = [op |-> "isValidMove",
                    ret |-> IF v.fault THEN "fault"
                            ELSE IF v.ret THEN "true" ELSE "false",
                    probed |-> v.probed, castled |-> "none"]
    /\ UNCHANGED <<currentPlayer, gameOver, moveHistory, enPassantTarget,
                   halfMoveClock, fullMoveNumber, isChess960,
                   initialPositions, positionId, isThinking, timers>>

\* isInCheck, isCheckmate, isStalemate or getAllValidMoves called on its own
\* for either colour; what it returns is not kept
Query ==
    /\ MayAsk
    /\ \E op \in Asking \ {"isValidMove"}, color \in Colors :
        \E q \in {queryRun(This, op, color)} :
            /\ board' = q.board
            /\ castlingRights' = q.castlingRights
            /\ call' = [NoCall EXCEPT !.op = op]
    /\ UNCHANGED <<currentPlayer, gameOver, moveHistory, enPassantTarget,
                   halfMoveClock, fullMoveNumber, isChess960,
                   initialPositions, positionId, isThinking, timers>>

\* The argument lists makeMove is called with when isValidMove is not asked
\* first: coordinates of the home ranks, of an empty rank and one step outside
\* the board.  A destination column outside the board is not tried: the
\* write would land outside the 8x8 grid.
RawCoords == {-1, 0, 5, 7, 8}
RawMoves == {mv \in RawCoords \X RawCoords \X RawCoords \X RawCoords : InRange(mv[4])}

\* makeMove(fromRow, fromCol, toRow, toCol) called without asking isValidMove
\* first, in a game of at most MaxRawPly moves
MakeMoveCall ==
    /\ Len(moveHistory) <= MaxRawPly
    /\ call.op \notin Asking
    /\ \E m \in {makeMoveRun(This, mv[1], mv[2], mv[3], mv[4]) : mv \in RawMoves} :
        /\ Becomes(m.this)
        /\ call' = [op |-> "makeMove",
                    ret |-> IF m.fault THEN "fault" ELSE "moved",
                    probed |-> FALSE, castled |-> m.castled]
    /\ UNCHANGED <<gameOver, isChess960, initialPositions, positionId,
                   isThinking, timers>>

\* play by the rules: every move is asked of isValidMove before it is applied
Next == PlayMove \/ Reset \/ SetChess960Mode

Spec == Init /\ [][Next]_vars

\* play by the rules, with the read-only operations called in between
NextApi == PlayMove \/ Reset \/ SetChess960Mode \/ IsValidMoveCall \/ Query

SpecApi == Init /\ [][NextApi]_vars

\* the engine's operations called with any arguments
NextRaw == PlayMove \/ Reset \/ SetChess960Mode \/ IsValidMoveCall \/ MakeMoveCall

SpecRaw == Init /\ [][NextRaw]_vars

\* the number of variant ids: Math.floor(Math.random() * 960)
PositionCount == 960

\* the ids setChess960Mode is given by a caller that names one
ExplicitIds == {0, 518, PositionCount - 1}

\* generateChess960Position for each id of the range
GeneratedOfRange == [id \in 0..(PositionCount - 1) |-> generateChess960Position(id)]

\* generateChess960Position(id) called on its own with each id of the range,
\* once between two other operations; the back row it returns is kept in call
GenerateChess960PositionCall ==
    /\ call.op # "generateChess960Position"
    /\ \E id \in 0..(PositionCount - 1) :
        \E g \in {GeneratedOfRange[id]} :
            /\ positionId' = id
            /\ initialPositions' = g.initialPositions
            /\ call' = [NoCall EXCEPT !.op = "generateChess960Position",
                                      !.ret = g.backRow]
    /\ UNCHANGED <<board, currentPlayer, gameOver, moveHistory, enPassantTarget,
                   castlingRights, halfMoveClock, fullMoveNumber, isChess960,
                   isThinking, timers>>

\* setChess960Mode(enabled, positionId) with the id given or left out (NoId);
\* the id asked for is kept in call
SetChess960ModeCall ==
    \E enabled \in BOOLEAN, id \in ExplicitIds \cup {NoId} :
        /\ isChess960' = enabled
        /\ positionId' = IF enabled THEN id ELSE NoId
        /\ initialPositions' = IF enabled THEN initialPositions ELSE standardPositions
        /\ call' = [NoCall EXCEPT !.op = "setChess960Mode", !.ret = id]
        /\ UNCHANGED <<board, currentPlayer, gameOver, moveHistory, enPassantTarget,
                       castlingRights, halfMoveClock, fullMoveNumber,
                       isThinking, timers>>

\* the variant layouts: the generator, the mode switch and new games
NextGen == GenerateChess960PositionCall \/ SetChess960ModeCall \/ Reset

SpecGen == Init /\ [][NextGen]_vars

(***************************************************************************)
(* The page: main.js drives the engine from board clicks, the New Game and *)
(* Undo buttons and the AI player's timers.  Every handler and every timer *)
(* callback runs to its end before the next one starts.                    *)
(***************************************************************************)
\* the moves that keep the game on one of the opening lines the page follows
PageMoves ==
    {l.moves[Len(moveHistory) + 1] :
        l \in {k \in LinesFollowed : /\ Len(k.moves) <= MaxPageLine
                                     /\ Len(k.moves) > Len(moveHistory)}}

\* a list of pending callbacks without its i-th
RemoveAt(s, i) == SubSeq(s, 1, i - 1) \o SubSeq(s, i + 1, Len(s))

\* isCheckmate, isStalemate and getAllValidMoves, as the page and the AI
\* call them, hand the engine back as they found it in every state of the
\* page; the actions below therefore take what they return and leave the
\* engine to makeMove.
PageQueriesLeaveEngine ==
    /\ \A color \in Colors : /\ queryRun(This, "isCheckmate", color) = This
                             /\ queryRun(This, "isStalemate", color) = This
    /\ queryRun(This, "getAllValidMoves", "black") = This

\* "Check for game over" of makePlayerMove and of the AI's callback:
\* isCheckmate(color), else isStalemate(color)
gameOverCheck(t, color) == isCheckmate(t, color) \/ isStalemate(t, color)

\* handleSquareClick on a piece and then on a square it may move to, which
\* runs makePlayerMove: the move, the game-over test and the 500 ms timer
\* for the AI
ClickMove ==
    /\ ~gameOver
    /\ currentPlayer # "black"
    /\ Len(timers) < MaxTimers
    /\ fullMoveNumber < MaxMoveNumber
    /\ \E mv \in PageMoves :
        /\ board[mv[1]][mv[2]] # Null
        /\ board[mv[1]][mv[2]].color = currentPlayer
        /\ \E v \in {isValidMoveRun(This, mv[1], mv[2], mv[3], mv[4])} :
            /\ v.ret
            /\ \E m \in {makeMoveRun([This EXCEPT !.board = v.board,
                                              !.castlingRights = v.castlingRights],
                                        mv[1], mv[2], mv[3], mv[4])} :
                \E over \in {gameOverCheck(m.this, "black")} :
                    /\ Becomes(m.this)
                    /\ gameOver' = over
                    /\ timers' = IF over THEN timers
                                 ELSE Append(timers, [kind |-> "schedule", moves |-> {}])
                    /\ call' = [op |-> "makeMove", ret |-> "moved",
                                probed |-> v.probed, castled |-> m.castled]
    /\ UNCHANGED <<isChess960, initialPositions, positionId, isThinking>>

\* The 500 ms timer of makePlayerMove fires: AIPlayer.makeMove up to its
\* setTimeout.  The list of moves goes into the thinking timer's callback; of
\* the list, the moves of the opening lines followed are kept.
AiMakeMove ==
    \E i \in DOMAIN timers :
        /\ timers[i].kind = "schedule"
        /\ IF gameOver \/ currentPlayer # "black" \/ isThinking
           THEN /\ timers' = RemoveAt(timers, i)
                /\ UNCHANGED <<gameOver, isThinking>>
           ELSE IF noValidMoves(This, "black")
           THEN /\ gameOver' = TRUE
                /\ timers' = RemoveAt(timers, i)
                /\ UNCHANGED isThinking
           ELSE /\ isThinking' = TRUE
                /\ timers' = Append(RemoveAt(timers, i),
                      [kind |-> "think",
                       moves |-> {mv \in PageMoves :
                                    /\ board[mv[1]][mv[2]] # Null
                                    /\ board[mv[1]][mv[2]].color = "black"
                                    /\ isValidMove(This, mv[1], mv[2], mv[3], mv[4])}])
                /\ UNCHANGED gameOver
        /\ call' = [NoCall EXCEPT !.op = "aiMakeMove"]
        /\ UNCHANGED <<board, castlingRights, currentPlayer, moveHistory,
                       enPassantTarget, halfMoveClock, fullMoveNumber, isChess960,
                       initialPositions, positionId>>

\* The thinking timer fires: selectBestMove picks a move of the list (any of
\* them, by its random branch), gameEngine.makeMove applies it, and the
\* callback sets gameOver on checkmate or stalemate of white.  A TypeError
\* in makeMove ends the callback there.
AiMoveCallback ==
    \E i \in DOMAIN timers :
        /\ timers[i].kind = "think"
        /\ timers' = RemoveAt(timers, i)
        /\ \E mv \in timers[i].moves :
            \E m \in {makeMoveRun(This, mv[1], mv[2], mv[3], mv[4])} :
                IF m.fault
                THEN /\ Becomes(m.this)
                     /\ call' = [op |-> "aiMove", ret |-> "fault",
                                 probed |-> FALSE, castled |-> "none"]
                     /\ UNCHANGED <<gameOver, isThinking>>
                ELSE /\ Becomes(m.this)
                     /\ gameOver' = (gameOver \/ gameOverCheck(m.this, "white"))
                     /\ isThinking' = FALSE
                     /\ call' = [op |-> "aiMove", ret |-> "moved",
                                 probed |-> FALSE, castled |-> m.castled]
        /\ UNCHANGED <<isChess960, initialPositions, positionId>>

\* newGame: setChess960Mode for the mode shown, gameEngine.reset() and
\* aiPlayer.reset(); no timer is cleared
NewGame ==
    \E id \in SampleIds :
        /\ board' = boardOf(IF isChess960 THEN Generated[id].backRow
                            ELSE standardBackRow)
        /\ initialPositions' = IF isChess960 THEN Generated[id].initialPositions
                               ELSE standardPositions
        /\ positionId' = IF isChess960 THEN id ELSE NoId
        /\ currentPlayer' = "white"
        /\ gameOver' = FALSE
        /\ moveHistory' = << >>
        /\ enPassantTarget' = NoSquare
        /\ castlingRights' = allRights
        /\ halfMoveClock' = 0
        /\ fullMoveNumber' = 1
        /\ isThinking' = FALSE
        /\ call' = [NoCall EXCEPT !.op = "newGame"]
        /\ UNCHANGED <<isChess960, timers>>

\* undoMove: the two records popped and the four squares written back
undoMoveBoard(undoneAIMove, undonePlayerMove) ==
    LET b1 == [board EXCEPT ![undoneAIMove.from.row][undoneAIMove.from.col] =
                                undoneAIMove.piece]
        b2 == [b1 EXCEPT ![undoneAIMove.to.row][undoneAIMove.to.col] =
                                undoneAIMove.captured]
        b3 == [b2 EXCEPT ![undonePlayerMove.from.row][undonePlayerMove.from.col] =
                                undonePlayerMove.piece]
    IN  [b3 EXCEPT ![undonePlayerMove.to.row][undonePlayerMove.to.col] =
                                undonePlayerMove.captured]

\* undoMove, when it does not return at once
UndoMove ==
    /\ Len(moveHistory) >= 2
    /\ board' = undoMoveBoard(moveHistory[Len(moveHistory)],
                              moveHistory[Len(moveHistory) - 1])
    /\ moveHistory' = SubSeq(moveHistory, 1, Len(moveHistory) - 2)
    /\ currentPlayer' = "white"
    /\ gameOver' = FALSE
    /\ call' = [NoCall EXCEPT !.op = "undoMove"]
    /\ UNCHANGED <<enPassantTarget, castlingRights, halfMoveClock, fullMoveNumber,
                   isChess960, initialPositions, positionId, isThinking, timers>>

NextUi == ClickMove \/ AiMakeMove \/ AiMoveCallback \/ NewGame \/ UndoMove

SpecUi == Init /\ [][NextUi]_vars


(***************************************************************************)
(* Properties.                                                             *)
(***************************************************************************)
\* the record makeMove pushed last
lastMove == moveHistory[Len(moveHistory)]

\* the rank a colour's king and rooks start on
homeRank(color) == IF color = "white" THEN 7 ELSE 0

\* C1: in play by the rules, after makeMove has applied a move that
\* isValidMove accepted, the king of the side that moved is not in check.
C1_MoverNotInCheck ==
    call.op = "makeMove" => ~isInCheck(This, Opponent(currentPlayer))

\* C2: a makeMove call that changes the game was given a move that isValidMove
\* accepts; called with a move isValidMove rejects, makeMove leaves the board,
\* the side to move, the castling rights, the en passant target, the counters
\* and the history as they were.
C2_RejectedMoveChangesNothing ==
    [][(call'.op = "makeMove" /\ moveHistory' # moveHistory)
        => LET r == moveHistory'[Len(moveHistory')]
           IN  isValidMove(This, r.from.row, r.from.col, r.to.row, r.to.col)]_vars

\* C3: neither isValidMove nor makeMove ends in a fault, whatever it is given.
C3_NoFault == call.ret # "fault"

\* C4: an isValidMove call, whatever it answers and whether or not it runs the
\* king-stepping probe of canCastle, leaves the board, the castling rights, the
\* en passant target, the side to move, the counters and the history as they
\* were before the call.
C4_IsValidMoveLeavesState ==
    [][call'.op = "isValidMove"
        => UNCHANGED <<board, castlingRights, enPassantTarget, currentPlayer,
                       halfMoveClock, fullMoveNumber, moveHistory>>]_vars

\* an isValidMove call has just accepted a castling move after running the probe
C4_Witness == call.op = "isValidMove" /\ call.probed /\ call.ret = "true"

\* C5: when makeMove has applied a castling move (a king leaving its recorded
\* initial file on its home rank for file 6 or 2 with that right set), the king
\* stands on file 6 (kingside) or 2 (queenside) and the rook of its colour on
\* file 5 or 3 of the same rank.
C5_CastlingPlacesKingAndRook ==
    (/\ call.op = "makeMove"
     /\ call.castled # "none"
     /\ lastMove.from.row = homeRank(lastMove.piece.color))
    => LET row == lastMove.from.row
           color == lastMove.piece.color
           kingside == call.castled = "kingside"
       IN  /\ board[row][IF kingside THEN 6 ELSE 2] = Piece("king", color)
           /\ board[row][IF kingside THEN 5 ELSE 3] = Piece("rook", color)

\* C6: for the side to move and each side of the board: when that castling
\* right is set, king and rook stand on their recorded initial squares, the
\* king is not in check, every square of the corridor other than theirs is
\* empty and the king would not be in check on any square it crosses or lands
\* on, isValidMove accepts the king's move to file 6 (kingside) or 2.
C6_CastlingAccepted ==
    \A kingside \in BOOLEAN :
        LET color == currentPlayer
            row == homeRank(color)
            positions == initialPositions[color]
            kingCol == positions.king
            rookCol == IF kingside THEN positions.rookKingside
                       ELSE positions.rookQueenside
            kingDestCol == IF kingside THEN 6 ELSE 2
            rookDestCol == IF kingside THEN 5 ELSE 3
            corridor == Min2(Min2(kingCol, kingDestCol), Min2(rookCol, rookDestCol))
                        .. Max2(Max2(kingCol, kingDestCol), Max2(rookCol, rookDestCol))
            crossed == (Min2(kingCol, kingDestCol) .. Max2(kingCol, kingDestCol))
                       \ {kingCol}
            kingOn(col) == [This EXCEPT !.board[row] =
                               [board[row] EXCEPT ![kingCol] = Null,
                                                  ![col] = Piece("king", color)]]
        IN  (/\ castlingRights[color][IF kingside THEN "kingside" ELSE "queenside"]
             /\ board[row][kingCol] = Piece("king", color)
             /\ board[row][rookCol] = Piece("rook", color)
             /\ ~isInCheck(This, color)
             /\ \A col \in corridor \ {kingCol, rookCol} : board[row][col] = Null
             /\ \A col \in crossed : ~isInCheck(kingOn(col), color))
            => isValidMove(This, row, kingCol, row, kingDestCol)

\* C7: a makeMove that moves a king leaves both castling rights of its colour
\* false; one that moves a rook off its colour's recorded initial rook square
\* on the home rank leaves that side's right false; and within a game (until
\* reset) a right that is false stays false.
C7_MovedKingOrRookLosesRight ==
    [][/\ (call'.op = "makeMove" /\ moveHistory' # moveHistory)
          => LET r == moveHistory'[Len(moveHistory')]
                 color == r.piece.color
                 positions == initialPositions[color]
             IN  /\ r.piece.type = "king"
                    => /\ ~castlingRights'[color].kingside
                       /\ ~castlingRights'[color].queenside
                 /\ (r.piece.type = "rook" /\ r.from.row = homeRank(color))
                    => /\ r.from.col = positions.rookKingside
                          => ~castlingRights'[color].kingside
                       /\ r.from.col = positions.rookQueenside
                          => ~castlingRights'[color].queenside
       /\ call'.op # "reset"
          => \A color \in Colors, side \in Sides :
                ~castlingRights[color][side] => ~castlingRights'[color][side]]_vars

\* a game in which a rook left its initial square, then a king moved, and
\* moves were made after both
C7_Witness ==
    /\ call.op = "makeMove"
    /\ \E i, j \in 1..(Len(moveHistory) - 1) :
          /\ i < j
          /\ moveHistory[i].piece.type = "rook"
          /\ moveHistory[i].from.row = homeRank(moveHistory[i].piece.color)
          /\ moveHistory[i].from.col =
                initialPositions[moveHistory[i].piece.color].rookKingside
          /\ ~castlingRights[moveHistory[i].piece.color].kingside
          /\ moveHistory[j].piece.type = "king"
          /\ ~castlingRights[moveHistory[j].piece.color].queenside

\* C8: when makeMove has captured a rook standing on its colour's recorded
\* initial rook square on that colour's home rank, the captured rook's colour
\* has lost the castling right of that side.
C8_CapturedRookLosesRight ==
    (call.op = "makeMove" /\ call.ret = "moved")
    => LET r == lastMove
           color == r.captured.color
       IN  (/\ r.captured # Null
            /\ r.captured.type = "rook"
            /\ r.to.row = homeRank(color))
           => /\ r.to.col = initialPositions[color].rookKingside
                 => ~castlingRights[color].kingside
              /\ r.to.col = initialPositions[color].rookQueenside
                 => ~castlingRights[color].queenside

\* C9: between two resets no step of isValidMove, getAllValidMoves, isInCheck,
\* isCheckmate, isStalemate or makeMove turns a castling right from false to
\* true.
C9_RightsNeverComeBack ==
    [][call'.op \in Asking \cup {"makeMove"}
        => \A color \in Colors, side \in Sides :
              castlingRights'[color][side] => castlingRights[color][side]]_vars

\* an asking operation has just been called in a game where a right is lost
C9_Witness ==
    /\ call.op \in Asking
    /\ \E color \in Colors, side \in Sides : ~castlingRights[color][side]

\* C10: after every makeMove the en passant target is set exactly when the
\* move applied was a pawn advance of two rows, and is then the square the
\* pawn skipped; a target that was set before the move is not the target after
\* it.
C10_EnPassantTargetOfLastMove ==
    [][(call'.op = "makeMove" /\ moveHistory' # moveHistory)
        => LET r == moveHistory'[Len(moveHistory')]
           IN  /\ IF r.piece.type = "pawn" /\ Abs(r.to.row - r.from.row) = 2
                  THEN enPassantTarget' =
                          [row |-> (r.from.row + r.to.row) \div 2, col |-> r.to.col]
                  ELSE enPassantTarget' = NoSquare
               /\ enPassantTarget # NoSquare
                  => enPassantTarget' # enPassantTarget]_vars

\* a pawn has advanced two rows and the move after it has been applied
C10_Witness ==
    /\ call.op = "makeMove"
    /\ Len(moveHistory) >= 2
    /\ LET r == moveHistory[Len(moveHistory) - 1]
       IN  r.piece.type = "pawn" /\ Abs(r.to.row - r.from.row) = 2
    /\ enPassantTarget = NoSquare

\* C11: in play by the rules the board holds exactly one white king and
\* exactly one black king.
C11_OneKingEach ==
    \A color \in Colors :
        Cardinality({rc \in Coords \X Coords :
                        board[rc[1]][rc[2]] = Piece("king", color)}) = 1

\* the fool's mate pattern two moves each from the standard start: white's
\* f-pawn and g-pawn advanced, the g-pawn to g4, black's e-pawn advanced and
\* black's queen on h4
foolsMate ==
    /\ Len(moveHistory) = 4
    /\ board[6][5] = Null
    /\ board[5][5] = Piece("pawn", "white") \/ board[4][5] = Piece("pawn", "white")
    /\ board[4][6] = Piece("pawn", "white")
    /\ board[1][4] = Null
    /\ board[2][4] = Piece("pawn", "black") \/ board[3][4] = Piece("pawn", "black")
    /\ board[4][7] = Piece("queen", "black")
    /\ board[7] = boardOf(standardBackRow)[7]

\* C12: once accepted moves from the standard start have reached the fool's
\* mate pattern, isCheckmate('white') is true and getAllValidMoves('white') is
\* empty.
C12_FoolsMate ==
    foolsMate => isCheckmate(This, "white") /\ getAllValidMoves(This, "white") = {}

\* makeMove has just applied the mating queen move
C12_Witness ==
    foolsMate /\ call.op = "makeMove" /\ lastMove.to = [row |-> 4, col |-> 7]

\* C13: at the standard start isValidMove accepts the two-row advance of every
\* white pawn, and once makeMove has applied one as the first move, from
\* (6,c) to (4,c), square (6,c) is empty, a white pawn stands on (4,c), the en
\* passant target is (5,c) and it is black's turn.
C13_FirstDoubleStep ==
    /\ (/\ moveHistory = << >>
        /\ board = boardOf(standardBackRow)
        /\ currentPlayer = "white")
       => \A c \in Coords : isValidMove(This, 6, c, 4, c)
    /\ (/\ call.op = "makeMove"
        /\ Len(moveHistory) = 1
        /\ board[7] = boardOf(standardBackRow)[7]
        /\ lastMove.from.row = 6
        /\ lastMove.to = [row |-> 4, col |-> lastMove.from.col])
       => LET c == lastMove.from.col
          IN  /\ board[6][c] = Null
              /\ board[4][c] = Piece("pawn", "white")
              /\ enPassantTarget = [row |-> 5, col |-> c]
              /\ currentPlayer = "black"

\* makeMove has applied (6,4) -> (4,4) as the first move of a standard game
C13_Witness ==
    /\ call.op = "makeMove"
    /\ Len(moveHistory) = 1
    /\ board[7] = boardOf(standardBackRow)[7]
    /\ lastMove.from = [row |-> 6, col |-> 4]
    /\ lastMove.to = [row |-> 4, col |-> 4]
    /\ enPassantTarget = [row |-> 5, col |-> 4]

\* C14: for each colour, isCheckmate and isStalemate, asked one after the
\* other in the same position, are never both true.
C14_NotMateAndStalemate ==
    \A color \in Colors :
        ~(/\ isCheckmate(This, color)
          /\ isStalemate(queryRun(This, "isCheckmate", color), color))

\* a position in which the side to move is checkmated
C14_Witness == call.op = "makeMove" /\ isCheckmate(This, currentPlayer)

\* the files of a back row that hold the given piece type
filesOf(backRow, type) == {i \in Coords : backRow[i] = type}

\* C15: for every id of the range, the back row generateChess960Position
\* returns has its one king on a file strictly between the files of its two
\* rooks, and the initialPositions it records for both colours name those
\* files with rookQueenside < king < rookKingside.
C15_KingBetweenRooks ==
    call.op = "generateChess960Position" =>
        /\ Cardinality(filesOf(call.ret, "king")) = 1
        /\ Cardinality(filesOf(call.ret, "rook")) = 2
        /\ \A k \in filesOf(call.ret, "king") :
              /\ \E r \in filesOf(call.ret, "rook") : r < k
              /\ \E r \in filesOf(call.ret, "rook") : k < r
        /\ \A color \in Colors :
              LET p == initialPositions[color]
              IN  /\ p.rookQueenside < p.king
                  /\ p.king < p.rookKingside
                  /\ call.ret[p.king] = "king"
                  /\ call.ret[p.rookQueenside] = "rook"
                  /\ call.ret[p.rookKingside] = "rook"

\* the generator has run for the last id of the range
C15_Witness ==
    /\ call.op = "generateChess960Position"
    /\ positionId = PositionCount - 1
    /\ initialPositions["white"].king \in 1..6

\* C16: generateChess960Position(0) returns bishop, bishop, queen, knight,
\* knight, rook, king, rook for the files 0 to 7.
C16_PositionZero ==
    (call.op = "generateChess960Position" /\ positionId = 0) =>
        call.ret = [i \in Coords |-> <<"bishop", "bishop", "queen", "knight",
                                       "knight", "rook", "king", "rook">>[i + 1]]

\* the generator has run for id 0
C16_Witness ==
    /\ call.op = "generateChess960Position"
    /\ positionId = 0
    /\ call.ret[6] = "king"

\* C17: a reset() that follows setChess960Mode(true, id) with an id given
\* sets up the back row generated for that id and leaves positionId at it.
C17_ExplicitIdKept ==
    [][(/\ call.op = "setChess960Mode"
        /\ isChess960
        /\ call.ret \in ExplicitIds
        /\ call'.op = "reset")
       => /\ positionId' = call.ret
          /\ board' = boardOf(generateChess960Position(call.ret).backRow)]_vars

\* C18: whatever the order of clicks, New Game, Undo and the AI's timers,
\* every move added to moveHistory is a move of the side whose turn it was
\* when makeMove applied it.
C18_MoverHasTheTurn ==
    [][Len(moveHistory') = Len(moveHistory) + 1
       => moveHistory'[Len(moveHistory')].player = currentPlayer]_vars

\* the engine's fields that a step of the AI leaves as makeMove(mv) alone
\* would leave them
onlyMakeMove(mv) ==
    LET t == makeMoveRun(This, mv.from.row, mv.from.col, mv.to.row, mv.to.col).this
    IN  /\ board' = t.board
        /\ currentPlayer' = t.currentPlayer
        /\ castlingRights' = t.castlingRights
        /\ enPassantTarget' = t.enPassantTarget
        /\ moveHistory' = t.moveHistory

\* C19: a step of the AI (AIPlayer.makeMove or its timer callback) changes
\* board, currentPlayer, castlingRights, enPassantTarget and moveHistory only
\* as one gameEngine.makeMove call does, and leaves gameOver alone.
C19_AiWritesThroughMakeMove ==
    [][call'.op \in {"aiMakeMove", "aiMove"}
       => /\ gameOver' = gameOver
          /\ \/ UNCHANGED <<board, currentPlayer, castlingRights, enPassantTarget,
                            moveHistory>>
             \/ /\ Len(moveHistory') = Len(moveHistory) + 1
                /\ onlyMakeMove(moveHistory'[Len(moveHistory')])]_vars

\* the players of the recorded moves are white, black, white, ...
alternates(history) ==
    \A i \in 1..Len(history) :
        history[i].player = IF i % 2 = 1 THEN "white" ELSE "black"

\* C20: undoMove, pressed when the recorded moves alternate, takes one white
\* and one black move away and leaves white to move with moveHistory empty or
\* ending with a black move.
C20_UndoTakesAPair ==
    [][(call'.op = "undoMove" /\ alternates(moveHistory))
       => /\ {moveHistory[Len(moveHistory)].player,
              moveHistory[Len(moveHistory) - 1].player} = Colors
          /\ currentPlayer' = "white"
          /\ \/ moveHistory' = << >>
             \/ /\ alternates(moveHistory')
                /\ moveHistory'[Len(moveHistory')].player = "black"]_vars

\* the engine's fields are those of a newly constructed game
freshGame ==
    /\ board = boardOf(standardBackRow)
    /\ currentPlayer = "white"
    /\ gameOver = FALSE
    /\ moveHistory = << >>
    /\ enPassantTarget = NoSquare
    /\ castlingRights = allRights
    /\ halfMoveClock = 0
    /\ fullMoveNumber = 1
    /\ isChess960 = FALSE
    /\ initialPositions = standardPositions
    /\ positionId = NoId

\* C21: after reset() in standard mode the engine is as a newly constructed
\* game, whatever was played before, and a second reset() changes nothing.
C21_ResetGivesFreshGame ==
    /\ []((call.op = "reset" /\ ~isChess960) => freshGame)
    /\ [][(call.op = "reset" /\ call'.op = "reset" /\ ~isChess960)
          => UNCHANGED vars]_vars

\* reset() has been called in standard mode
C21_Witness == call.op = "reset" /\ ~isChess960 /\ freshGame

\* the engine with the king of a colour lifted from its recorded file and put
\* on file col of its home rank
kingPutOn(color, col) ==
    LET row == homeRank(color)
        kingCol == initialPositions[color].king
    IN  [This EXCEPT !.board =
            [[board EXCEPT ![row][kingCol] = Null] EXCEPT ![row][col] =
                board[row][kingCol]]]

\* C22: makeMove relocates a rook with a king move only if, before the move,
\* the mover's right for that side was set, the king was not in check, and no
\* square the king crosses or lands on was attacked.
C22_CastlingOnlyWhenSafe ==
    [][(call'.op = "makeMove" /\ call'.castled # "none")
       => LET color == currentPlayer
              kingCol == initialPositions[color].king
              kingDestCol == IF call'.castled = "kingside" THEN 6 ELSE 2
          IN  /\ castlingRights[color][call'.castled]
              /\ ~isInCheck(This, color)
              /\ \A col \in Min2(kingCol, kingDestCol)..Max2(kingCol, kingDestCol) :
                    col # kingCol => ~isInCheck(kingPutOn(color, col), color)]_vars

\* C23: makeMove castles only if, before the move, the mover's king and the
\* castling rook stood on their recorded files of the home rank and every
\* other square of the span of king start, king destination, rook start and
\* rook destination was empty.
C23_CastlingOnlyFromInitialSquares ==
    [][(call'.op = "makeMove" /\ call'.castled # "none")
       => LET color == currentPlayer
              kingside == call'.castled = "kingside"
              row == homeRank(color)
              positions == initialPositions[color]
              kingCol == positions.king
              rookCol == IF kingside THEN positions.rookKingside
                         ELSE positions.rookQueenside
              kingDestCol == IF kingside THEN 6 ELSE 2
              rookDestCol == IF kingside THEN 5 ELSE 3
              minCol == Min2(Min2(kingCol, kingDestCol), Min2(rookCol, rookDestCol))
              maxCol == Max2(Max2(kingCol, kingDestCol), Max2(rookCol, rookDestCol))
          IN  /\ board[row][kingCol] = Piece("king", color)
              /\ board[row][rookCol] = Piece("rook", color)
              /\ \A col \in minCol..maxCol :
                    col \notin {kingCol, rookCol} => board[row][col] = Null]_vars

\* the side to move may castle to the given side by the rules: right set, king
\* and rook on their recorded squares, king not in check, the span empty but
\* for the two, and no square the king crosses or lands on attacked
castlingConditionsMet(kingside) ==
    LET color == currentPlayer
        row == homeRank(color)
        positions == initialPositions[color]
        kingCol == positions.king
        rookCol == IF kingside THEN positions.rookKingside ELSE positions.rookQueenside
        kingDestCol == IF kingside THEN 6 ELSE 2
        rookDestCol == IF kingside THEN 5 ELSE 3
        minCol == Min2(Min2(kingCol, kingDestCol), Min2(rookCol, rookDestCol))
        maxCol == Max2(Max2(kingCol, kingDestCol), Max2(rookCol, rookDestCol))
    IN  /\ castlingRights[color][IF kingside THEN "kingside" ELSE "queenside"]
        /\ board[row][kingCol] = Piece("king", color)
        /\ board[row][rookCol] = Piece("rook", color)
        /\ ~isInCheck(This, color)
        /\ \A col \in minCol..maxCol :
              col \notin {kingCol, rookCol} => board[row][col] = Null
        /\ \A col \in Min2(kingCol, kingDestCol)..Max2(kingCol, kingDestCol) :
              col # kingCol => ~isInCheck(kingPutOn(color, col), color)

\* C24: in a layout whose castling rook starts on the king's destination file
\* (6 kingside, 2 queenside), isValidMove accepts the castling move of the side
\* to move whenever the conditions of castling are met.
C24_CastlingOntoRookFileAccepted ==
    \A kingside \in BOOLEAN :
        LET color == currentPlayer
            positions == initialPositions[color]
            rookCol == IF kingside THEN positions.rookKingside
                       ELSE positions.rookQueenside
            kingDestCol == IF kingside THEN 6 ELSE 2
        IN  (rookCol = kingDestCol /\ positions.king # kingDestCol
             /\ castlingConditionsMet(kingside))
            => isValidMove(This, homeRank(color), positions.king,
                           homeRank(color), kingDestCol)

(***************************************************************************)
(* The standard-only engine, class ChessGame of js/ai-player.js.  It has   *)
(* no initialPositions: the king starts on file 4, the rooks on files 0    *)
(* and 7, and castling is a king move of two files.  Its isValidPawnMove,  *)
(* isPathClear and findKing are those of the variant-aware engine, line by *)
(* line.                                                                   *)
(***************************************************************************)
RECURSIVE standardIsPieceMovementValid(_, _, _, _, _, _)
RECURSIVE standardIsInCheck(_, _)
RECURSIVE standardCanCastle(_, _, _)

\* ai-player.js canCastle: the right, the check, the squares strictly between
\* king and rook, then the king stepped onto the crossed and the landing square
standardCanCastle(this, color, kingside) ==
    LET row == IF color = "white" THEN 7 ELSE 0
        kingCol == 4
        rookCol == IF kingside THEN 7 ELSE 0
        startCol == Min2(kingCol, rookCol)
        endCol == Max2(kingCol, rookCol)
        kingDestCol == IF kingside THEN 6 ELSE 2
        passThroughCol == IF kingside THEN 5 ELSE 3
        b1 == [this.board EXCEPT ![row] =
                  [this.board[row] EXCEPT ![passThroughCol] = this.board[row][kingCol],
                                          ![kingCol] = Null]]
        b2 == [b1 EXCEPT ![row] =
                  [b1[row] EXCEPT ![kingDestCol] = b1[row][passThroughCol],
                                  ![passThroughCol] = Null]]
    IN  IF ~this.castlingRights[color][IF kingside THEN "kingside" ELSE "queenside"]
        THEN FALSE
        ELSE IF standardIsInCheck(this, color) THEN FALSE
        ELSE IF \E col \in (startCol + 1)..(endCol - 1) : this.board[row][col] # Null
        THEN FALSE
        ELSE /\ ~standardIsInCheck([this EXCEPT !.board = b1], color)
             /\ ~standardIsInCheck([this EXCEPT !.board = b2], color)

standardIsPieceMovementValid(this, piece, fromRow, fromCol, toRow, toCol) ==
    LET absRowDiff == Abs(toRow - fromRow)
        absColDiff == Abs(toCol - fromCol)
    IN  IF piece.type = "king"
        THEN IF absRowDiff <= 1 /\ absColDiff <= 1 THEN TRUE
             ELSE IF absRowDiff = 0 /\ absColDiff = 2
                  THEN standardCanCastle(this, piece.color, toCol > fromCol)
                  ELSE FALSE
        ELSE isPieceMovementValid(this, piece, fromRow, fromCol, toRow, toCol)

standardIsInCheck(this, color) ==
    LET kingPosition == findKing(this, color)
        opponentColor == Opponent(color)
    IN  IF kingPosition = NoSquare THEN FALSE
        ELSE \E row \in Coords, col \in Coords :
                /\ this.board[row][col] # Null
                /\ this.board[row][col].color = opponentColor
                /\ standardIsPieceMovementValid(this, this.board[row][col], row, col,
                                                kingPosition.row, kingPosition.col)

\* ai-player.js isValidMove, lines 590-601: the trial move, the rook of a
\* two-file king move taken from file 7 or 0
standardTrialBoard(this, piece, fromRow, fromCol, toRow, toCol) ==
    LET b1 == [this.board EXCEPT ![toRow][toCol] = piece]
        b2 == [b1 EXCEPT ![fromRow][fromCol] = Null]
        rookFromCol == IF toCol > fromCol THEN 7 ELSE 0
        rookToCol == IF toCol > fromCol THEN 5 ELSE 3
        b3 == [b2 EXCEPT ![fromRow][rookToCol] = b2[fromRow][rookFromCol]]
    IN  IF piece.type = "king" /\ Abs(toCol - fromCol) = 2
        THEN [b3 EXCEPT ![fromRow][rookFromCol] = Null]
        ELSE b2

\* ai-player.js isValidMove, for squares of the board
standardIsValidMove(this, fromRow, fromCol, toRow, toCol) ==
    LET piece == this.board[fromRow][fromCol]
    IN  IF piece = Null \/ piece.color # this.currentPlayer THEN FALSE
        ELSE IF /\ this.board[toRow][toCol] # Null
                /\ this.board[toRow][toCol].color = piece.color THEN FALSE
        ELSE IF ~standardIsPieceMovementValid(this, piece, fromRow, fromCol, toRow, toCol)
        THEN FALSE
        ELSE ~standardIsInCheck(
                 [this EXCEPT !.board = standardTrialBoard(this, piece, fromRow,
                                                           fromCol, toRow, toCol)],
                 piece.color)

\* ai-player.js updateCastlingRights, called with the piece on its destination
standardUpdateCastlingRights(this, piece, fromRow, fromCol, toRow, toCol) ==
    LET r0 == this.castlingRights
        lose(r, color, row, col) ==
            IF row = (IF color = "white" THEN 7 ELSE 0)
            THEN LET q == IF col = 0 THEN [r EXCEPT ![color].queenside = FALSE] ELSE r
                 IN  IF col = 7 THEN [q EXCEPT ![color].kingside = FALSE] ELSE q
            ELSE r
        r1 == IF piece.type = "king"
              THEN [r0 EXCEPT ![piece.color] = [kingside |-> FALSE, queenside |-> FALSE]]
              ELSE r0
        r2 == IF piece.type = "rook" THEN lose(r1, piece.color, fromRow, fromCol) ELSE r1
        capturedPiece == this.board[toRow][toCol]
    IN  IF capturedPiece # Null /\ capturedPiece.type = "rook"
        THEN lose(r2, capturedPiece.color, toRow, toCol)
        ELSE r2

\* ai-player.js makeMove, as the board, the castling rights and the en passant
\* target it leaves
standardMakeMove(this, fromRow, fromCol, toRow, toCol) ==
    LET piece == this.board[fromRow][fromCol]
        b1 == IF isEnPassantCapture(this, piece, toRow, toCol)
              THEN [this.board EXCEPT ![fromRow][toCol] = Null]
              ELSE this.board
        rookFromCol == IF toCol > fromCol THEN 7 ELSE 0
        rookToCol == IF toCol > fromCol THEN 5 ELSE 3
        b2 == IF piece.type = "king" /\ Abs(toCol - fromCol) = 2
              THEN [[b1 EXCEPT ![fromRow][rookToCol] = b1[fromRow][rookFromCol]]
                       EXCEPT ![fromRow][rookFromCol] = Null]
              ELSE b1
        b3 == [b2 EXCEPT ![toRow][toCol] = piece]
        moved == [b3 EXCEPT ![fromRow][fromCol] = Null]
    IN  [board |-> promote(moved, piece, toRow, toCol),
         castlingRights |-> standardUpdateCastlingRights(
                                [this EXCEPT !.board = moved], piece,
                                fromRow, fromCol, toRow, toCol),
         enPassantTarget |-> nextEnPassantTarget(piece, fromRow, toRow, toCol)]

\* the game runs on the standard layout
standardLayout == ~isChess960 /\ initialPositions = standardPositions

\* C25: on the standard layout the variant-aware engine and the standard-only
\* engine give the same isValidMove answer for every move, and for every move
\* accepted makeMove leaves the same board, castling rights and en passant
\* target.
C25_SameAsStandardEngine ==
    standardLayout =>
        \A fromRow \in Coords, fromCol \in Coords, toRow \in Coords, toCol \in Coords :
            /\ isValidMove(This, fromRow, fromCol, toRow, toCol)
                 = standardIsValidMove(This, fromRow, fromCol, toRow, toCol)
            /\ isValidMove(This, fromRow, fromCol, toRow, toCol) =>
                 LET t == makeMoveRun(This, fromRow, fromCol, toRow, toCol).this
                     s == standardMakeMove(This, fromRow, fromCol, toRow, toCol)
                 IN  /\ t.board = s.board
                     /\ t.castlingRights = s.castlingRights
                     /\ t.enPassantTarget = s.enPassantTarget

\* C26: isValidMove accepts a pawn's advance of two rows only from the pawn's
\* starting row (6 for white, 1 for black) and only when the square crossed and
\* the square landed on are both empty.
C26_DoubleStepOverEmptySquares ==
    \A fromRow \in Coords, col \in Coords :
        LET piece == board[fromRow][col]
            direction == IF piece.color = "white" THEN -1 ELSE 1
            toRow == fromRow + 2 * direction
        IN  (/\ piece # Null
             /\ piece.type = "pawn"
             /\ InRange(toRow)
             /\ isValidMove(This, fromRow, col, toRow, col))
            => /\ fromRow = (IF piece.color = "white" THEN 6 ELSE 1)
               /\ board[fromRow + direction][col] = Null
               /\ board[toRow][col] = Null

\* the move runs along a rank or file
alongLine(fromRow, fromCol, toRow, toCol) == fromRow = toRow \/ fromCol = toCol

\* the move runs along a diagonal
alongDiagonal(fromRow, fromCol, toRow, toCol) ==
    Abs(toRow - fromRow) = Abs(toCol - fromCol)

\* the squares strictly between the two ends of a line or diagonal move
squaresBetween(fromRow, fromCol, toRow, toCol) ==
    {rc \in Coords \X Coords :
        /\ rc # <<fromRow, fromCol>>
        /\ rc # <<toRow, toCol>>
        /\ Min2(fromRow, toRow) <= rc[1] /\ rc[1] <= Max2(fromRow, toRow)
        /\ Min2(fromCol, toCol) <= rc[2] /\ rc[2] <= Max2(fromCol, toCol)
        /\ (rc[1] - fromRow) * (toCol - fromCol) = (rc[2] - fromCol) * (toRow - fromRow)}

\* C27: isValidMove accepts a rook move only along a rank or file, a bishop move
\* only along a diagonal, a queen move only along either, and each only when
\* every square strictly between the two ends is empty.
C27_SlidersKeepToClearLines ==
    \A fromRow \in Coords, fromCol \in Coords :
        LET piece == board[fromRow][fromCol]
        IN  (piece # Null /\ piece.type \in {"rook", "bishop", "queen"})
            => \A toRow \in Coords, toCol \in Coords :
                  isValidMove(This, fromRow, fromCol, toRow, toCol)
                  => /\ piece.type = "rook" => alongLine(fromRow, fromCol, toRow, toCol)
                     /\ piece.type = "bishop"
                          => alongDiagonal(fromRow, fromCol, toRow, toCol)
                     /\ piece.type = "queen"
                          => \/ alongLine(fromRow, fromCol, toRow, toCol)
                             \/ alongDiagonal(fromRow, fromCol, toRow, toCol)
                     /\ \A rc \in squaresBetween(fromRow, fromCol, toRow, toCol) :
                           board[rc[1]][rc[2]] = Null

\* the move last applied, accepted by isValidMove, took a queen over more than
\* one square
C27_Witness ==
    /\ call.op = "makeMove"
    /\ moveHistory # << >>
    /\ lastMove.piece.type = "queen"
    /\ Max2(Abs(lastMove.to.row - lastMove.from.row),
            Abs(lastMove.to.col - lastMove.from.col)) >= 2

\* C28: no operation other than reset changes initialPositions: moves and
\* setChess960Mode called during a game leave the recorded king and rook files
\* as the game's start set them.
C28_InitialPositionsKept ==
    [][call'.op # "reset" => initialPositions' = initialPositions]_vars

\* C29: for every id of the range, the back row generateChess960Position
\* returns holds one king, one queen, two rooks, two bishops and two knights,
\* leaves no file empty, and has its bishops on files of opposite parity.
C29_FullBackRank ==
    call.op = "generateChess960Position" =>
        /\ Cardinality(filesOf(call.ret, "king")) = 1
        /\ Cardinality(filesOf(call.ret, "queen")) = 1
        /\ Cardinality(filesOf(call.ret, "rook")) = 2
        /\ Cardinality(filesOf(call.ret, "bishop")) = 2
        /\ Cardinality(filesOf(call.ret, "knight")) = 2
        /\ filesOf(call.ret, "null") = {}
        /\ \E b \in filesOf(call.ret, "bishop"), d \in filesOf(call.ret, "bishop") :
              b % 2 = 1 /\ d % 2 = 0

\* the generator has run for id 518 and returned the back row of standard chess
C29_Witness ==
    /\ call.op = "generateChess960Position"
    /\ positionId = 518
    /\ call.ret = standardBackRow

\* C30: the back row generateChess960Position returns for an id is returned for
\* no other id of the range, and the back row and the initialPositions of an id
\* are those of every other call with that id.
C30_OneArrangementPerId ==
    call.op = "generateChess960Position" =>
        /\ \A id \in 0..(PositionCount - 1) :
              GeneratedOfRange[id].backRow = call.ret => id = positionId
        /\ call.ret = generateChess960Position(positionId).backRow
        /\ initialPositions = generateChess960Position(positionId).initialPositions

\* the generator has run for the last id and put the queen on file 5
C30_Witness ==
    /\ call.op = "generateChess960Position"
    /\ positionId = PositionCount - 1
    /\ call.ret[5] = "queen"

\* the record makeMove has just pushed, in a step that applies a move
appliedMove == moveHistory'[Len(moveHistory')]

\* C31: when a pawn moves diagonally onto the en passant target, the pawn that
\* advanced two rows on the move before stands beside it (source row,
\* destination file) and is the one piece makeMove removes: the target square
\* was empty, the capturing pawn ends on it, and the board changes on those
\* three squares only.
C31_EnPassantRemovesThePawn ==
    [][(/\ call'.op = "makeMove"
        /\ appliedMove.piece.type = "pawn"
        /\ appliedMove.to = enPassantTarget
        /\ appliedMove.from.col # appliedMove.to.col)
       => LET m == appliedMove
          IN  /\ moveHistory # << >>
              /\ lastMove.piece = Piece("pawn", Opponent(m.piece.color))
              /\ lastMove.to = [row |-> m.from.row, col |-> m.to.col]
              /\ Abs(lastMove.to.row - lastMove.from.row) = 2
              /\ board[m.from.row][m.to.col] = lastMove.piece
              /\ board[m.to.row][m.to.col] = Null
              /\ board' = [[[board EXCEPT ![m.from.row][m.from.col] = Null]
                               EXCEPT ![m.from.row][m.to.col] = Null]
                               EXCEPT ![m.to.row][m.to.col] = m.piece]]_vars

\* the squares of a board that hold a piece of the given colour
squaresOf(b, color) ==
    {rc \in Coords \X Coords : b[rc[1]][rc[2]] # Null /\ b[rc[1]][rc[2]].color = color}

\* C32: the captured piece of the record makeMove pushes is empty exactly when
\* the move removed no piece of the opponent from the board, and otherwise it is
\* a piece of the opponent that stood on a square the move emptied of it.
C32_RecordNamesThePieceRemoved ==
    [][call'.op = "makeMove"
       => LET m == appliedMove
              enemy == Opponent(m.piece.color)
              removed == squaresOf(board, enemy) \ squaresOf(board', enemy)
          IN  /\ (m.captured = Null) <=> (removed = {})
              /\ m.captured # Null
                   => \E rc \in removed : board[rc[1]][rc[2]] = m.captured]_vars

\* C33: the notation of the record makeMove pushes has the en passant
\* annotation exactly when the move took a pawn diagonally onto the en passant
\* target that stood before the move.
C33_EnPassantAnnotated ==
    [][call'.op = "makeMove"
       => LET m == appliedMove
          IN  m.notation.enPassant
                <=> /\ m.piece.type = "pawn"
                    /\ m.to = enPassantTarget
                    /\ m.from.col # m.to.col]_vars

\* C34: when makeMove takes a pawn onto row 0 or row 7, the destination square
\* holds a queen of the pawn's colour afterwards while the record names the
\* pawn, and no pawn ever stands on row 0 or row 7.
C34_PromotionToQueen ==
    /\ [](\A row \in {0, 7}, col \in Coords :
             board[row][col] = Null \/ board[row][col].type # "pawn")
    /\ [][(/\ call'.op = "makeMove"
           /\ board[appliedMove.from.row][appliedMove.from.col].type = "pawn"
           /\ appliedMove.to.row \in {0, 7})
          => /\ board'[appliedMove.to.row][appliedMove.to.col]
                  = Piece("queen", appliedMove.piece.color)
             /\ appliedMove.piece
                  = board[appliedMove.from.row][appliedMove.from.col]]_vars

\* a white pawn has been taken onto row 0 and a white queen stands there
C34_Witness ==
    /\ call.op = "makeMove"
    /\ moveHistory # << >>
    /\ lastMove.piece = Piece("pawn", "white")
    /\ lastMove.to.row = 0
    /\ board[0][lastMove.to.col] = Piece("queen", "white")

\* the engine as reset() leaves it for the layout in use
gameStart ==
    [This EXCEPT
       !.board = boardOf(IF isChess960 /\ positionId # NoId
                         THEN Generated[positionId].backRow ELSE standardBackRow),
       !.currentPlayer = "white",
       !.gameOver = FALSE,
       !.moveHistory = << >>,
       !.enPassantTarget = NoSquare,
       !.castlingRights = allRights,
       !.halfMoveClock = 0,
       !.fullMoveNumber = 1]

RECURSIVE replay(_, _)
\* makeMove called for each record of a history in turn
replay(this, records) ==
    IF records = << >> THEN this
    ELSE replay(makeMoveRun(this, Head(records).from.row, Head(records).from.col,
                            Head(records).to.row, Head(records).to.col).this,
                Tail(records))

\* the board, the side to move, the castling rights, the en passant target and
\* the move counters of an engine
positionOf(t) ==
    <<t.board, t.currentPlayer, t.castlingRights, t.enPassantTarget,
      t.halfMoveClock, t.fullMoveNumber>>

\* C35: when the history ends with a move of the player and a move of the AI
\* and the engine stands where those moves have led from the game's start,
\* undoMove leaves the board, the side to move, the castling rights, the en
\* passant target and the move counters as they stood before the pair.
C35_UndoRestoresThePosition ==
    [][(/\ call'.op = "undoMove"
        /\ moveHistory[Len(moveHistory) - 1].player = "white"
        /\ moveHistory[Len(moveHistory)].player = "black"
        /\ positionOf(This) = positionOf(replay(gameStart, moveHistory)))
       => positionOf(This)' = positionOf(replay(gameStart, moveHistory'))]_vars

\* the number of nested isInCheck calls up to which a chain is followed
MaxChain == 4

\* the largest number of a set of naturals, 0 for the empty set
MaxOf(S) == IF S = {} THEN 0 ELSE CHOOSE x \in S : \A y \in S : y <= x

RECURSIVE isInCheckChain(_, _, _)
RECURSIVE canCastleChain(_, _, _, _)

\* The longest chain of isInCheck calls nested in one another that
\* isInCheck(color) can start, followed through at most `fuel` of them: the
\* call itself, and below it the calls made by canCastle for every king of the
\* other colour whose move to the king's square is a castling pattern.
isInCheckChain(this, color, fuel) ==
    IF fuel = 0 THEN 0
    ELSE
    LET kingPosition == findKing(this, color)
        opponentColor == Opponent(color)
        kings == IF kingPosition = NoSquare THEN {}
                 ELSE {rc \in Coords \X Coords :
                         /\ this.board[rc[1]][rc[2]] = Piece("king", opponentColor)
                         /\ isCastlingAttempt(this, Piece("king", opponentColor),
                                              rc[1], rc[2],
                                              kingPosition.row, kingPosition.col)}
    IN  1 + MaxOf({canCastleChain(this, opponentColor, kingPosition.col = 6, fuel - 1) :
                      rc \in kings})

\* the longest chain of isInCheck calls canCastle starts: the call of line 262
\* when the right is set, and the calls of the king-stepping loop when the
\* loop is reached
canCastleChain(this, color, kingside, fuel) ==
    LET row == IF color = "white" THEN 7 ELSE 0
        kingCol == this.initialPositions[color].king
        kingDestCol == IF kingside THEN 6 ELSE 2
        run == canCastleRun(this, color, kingside)
        path == IF kingDestCol > kingCol THEN (kingCol + 1)..kingDestCol
                ELSE kingDestCol..(kingCol - 1)
        probe(col) == [this EXCEPT !.board =
                          [this.board EXCEPT ![row] =
                              [this.board[row] EXCEPT ![col] = this.board[row][kingCol],
                                                      ![kingCol] = Null]]]
    IN  IF ~this.castlingRights[color][IF kingside THEN "kingside" ELSE "queenside"]
        THEN 0
        ELSE IF run.loops THEN fuel
        ELSE IF run.probed
        THEN MaxOf({isInCheckChain(this, color, fuel)}
                   \cup {isInCheckChain(probe(col), color, fuel) : col \in path})
        ELSE isInCheckChain(this, color, fuel)

\* C36: in every position reached, for both colours, the isInCheck calls nested
\* through an enemy king's castling pattern and canCastle come to an end before
\* MaxChain of them are open, and no king move that is handed to canCastle
\* enters the king-stepping loop with the king already on its destination file.
C36_IsInCheckTerminates ==
    /\ \A color \in Colors : isInCheckChain(This, color, MaxChain) < MaxChain
    /\ \A fromRow \in Coords, fromCol \in Coords :
          LET piece == board[fromRow][fromCol]
          IN  (piece # Null /\ piece.type = "king")
              => \A toRow \in Coords, toCol \in Coords :
                    isCastlingAttempt(This, piece, fromRow, fromCol, toRow, toCol)
                    => ~canCastleRun(This, piece.color, toCol = 6).loops

\* the white king stands on the black king's row on file 2, and isInCheck for
\* white calls canCastle for the black king, which calls isInCheck for black
C36_Witness ==
    /\ call.op = "makeMove"
    /\ board[0][2] = Piece("king", "white")
    /\ board[0][4] = Piece("king", "black")
    /\ castlingRights["black"].queenside
    /\ isInCheckChain(This, "white", MaxChain) = 2

\* C37: for the side that is not to move getAllValidMoves returns no move, so
\* isStalemate is true of it when it is not in check and isCheckmate when it is.
C37_NoMovesForSideNotToMove ==
    LET color == Opponent(currentPlayer)
    IN  /\ getAllValidMoves(This, color) = {}
        /\ ~isInCheck(This, color) => isStalemate(This, color)
        /\ isInCheck(This, color) => isCheckmate(This, color)

\* a move has been applied, the side that made it is not in check and is
\* reported stalemated, and the side to move has moves
C37_Witness ==
    /\ call.op = "makeMove"
    /\ ~isInCheck(This, Opponent(currentPlayer))
    /\ isStalemate(This, Opponent(currentPlayer))
    /\ getAllValidMoves(This, currentPlayer) # {}

\* C38: a move applied after isValidMove accepted it leaves the number of the
\* mover's pieces as it was and takes at most one piece of the opponent from
\* the board, exactly one when it captures on its destination or en passant.
C38_PieceCounts ==
    [][call'.op = "makeMove"
       => LET m == appliedMove
              mover == m.piece.color
              enemy == Opponent(mover)
              own == Cardinality(squaresOf(board, mover))
              theirs == Cardinality(squaresOf(board, enemy))
              theirsAfter == Cardinality(squaresOf(board', enemy))
              captures == \/ m.captured # Null
                          \/ /\ m.piece.type = "pawn"
                             /\ m.to = enPassantTarget
                             /\ m.from.col # m.to.col
          IN  /\ Cardinality(squaresOf(board', mover)) = own
              /\ theirsAfter = IF captures THEN theirs - 1 ELSE theirs]_vars

\* the game has run from its start by moves in turn, the last of them the
\* player's, and none of them was undone: no New Game and no Undo since that
\* move
playerHasMoved ==
    /\ moveHistory # << >>
    /\ alternates(moveHistory)
    /\ fullMoveNumber = 1 + (Len(moveHistory) \div 2)

\* C39: in a game that has run by moves in turn with none undone, a move the
\* AI's timer applies is the one answer to the player's last move: black is to
\* move, the last record is the player's, isValidMove accepts the move, and
\* afterwards white is to move and the AI is not thinking.
C39_OneLegalAnswer ==
    [][(call'.op = "aiMove" /\ call'.ret = "moved" /\ playerHasMoved)
       => /\ currentPlayer = "black"
          /\ lastMove.player = "white"
          /\ isValidMove(This, appliedMove.from.row, appliedMove.from.col,
                         appliedMove.to.row, appliedMove.to.col)
          /\ currentPlayer' = "white"
          /\ ~isThinking']_vars

\* C40: no move is added to moveHistory, by a click or by a timer of the AI,
\* in a state where gameOver is true.
C40_NoMoveWhenGameOver ==
    [][Len(moveHistory') = Len(moveHistory) + 1 => ~gameOver]_vars

====
